---- MODULE Spec2Model ----
(***************************************************************************)
(* Model of the route-difficulty tooling of tripnaraht:                    *)
(*   src/tools/end2end_difficulty_with_geojson.py  (geodesy, resampler,    *)
(*       elevation sampling, metrics, pipeline orchestration)              *)
(*   src/models/trail_difficulty.py                (DifficultyEstimator)   *)
(*                                                                         *)
(* Every component is a pure function or a sequential handler; each has    *)
(* its own specification (SpecPolyline, SpecAltitude, SpecEstimate,        *)
(* SpecResample, SpecPipeline) over the shared variables below.  A call    *)
(* is modelled as pc = "call" (arguments chosen) followed by one action    *)
(* per handler that writes the returned value.                             *)
(*                                                                         *)
(* Numbers.  Python floats are modelled by exact fixed-point integers:     *)
(*   coordinates      in 1e-5 degree                                       *)
(*   distance_km      in 0.1 km          (D10)                             *)
(*   gain_m, elevation in metres                                           *)
(*   slope            in 1/1000                                            *)
(*   multipliers      in 1e-5                                              *)
(*   S_km             as a mixed number of 1e-6 km (see Mixed numbers)     *)
(***************************************************************************)
EXTENDS Integers, Sequences, FiniteSets, TLC

VARIABLES
    pc,        \* position of the modelled call
    args,      \* the arguments of the call
    ret,       \* what the call returned (or raised)
    encoded,   \* polyline: the string produced by encode_polyline
    calls,     \* log of the calls made so far
    frame      \* pipeline: the local variables of end2end

vars == <<pc, args, ret, encoded, calls, frame>>

\* Python's None and a missing dictionary key.  TLC compares only values of
\* one kind, so each comes in two forms: for attributes holding text (Null,
\* Absent) and for attributes and arguments holding numbers (None, Missing).
Null == "NULL"
Absent == "ABSENT"
None == 0 - 999999
Missing == 0 - 999998
\* No value yet (the call has not returned).
NoRet == "NORET"

\* input_data.get(key) and input_data.get(key, default)
Get(v) == IF v = Missing THEN None ELSE v
GetOr(v, default) == IF v = Missing THEN default ELSE v
GetStr(v) == IF v = Absent THEN Null ELSE v
GetStrOr(v, default) == IF v = Absent THEN default ELSE v

Abs(x) == IF x < 0 THEN -x ELSE x
Min(a, b) == IF a <= b THEN a ELSE b
Max(a, b) == IF a >= b THEN a ELSE b

(***************************************************************************)
(* Geodesy primitives: polyline codec                                      *)
(***************************************************************************)

\* Bound: coordinates of the polyline check lie in -MaxCoord..MaxCoord
\* (1e-5 degree), sequences have at most MaxPoints points.
MaxCoord == 2
MaxPoints == 2

\* `int(round(value * 1e5))` for an integer-valued `value`.
ScaleE5(value) == value * 100000

\* encode_value: scale, zig-zag, 5-bit chunks with continuation bit 0x20,
\* each chunk offset by 63.  Characters are modelled by their code points.
RECURSIVE Chunks(_)
Chunks(value) ==
    IF value >= 32
    THEN <<(32 + (value % 32)) + 63>> \o Chunks(value \div 32)
    ELSE <<value + 63>>

ZigZag(value) == IF value < 0 THEN -(2 * value) - 1 ELSE 2 * value

encode_value(value) == Chunks(ZigZag(ScaleE5(value)))

\* encode_polyline: coords are <<lat, lon>> in 1e-5 degree, so that
\* int(round((lat - prev_lat) * 1e5)) is the difference of the two integers.
RECURSIVE EncodeFrom(_, _, _, _)
EncodeFrom(coords, i, prev_lat, prev_lon) ==
    IF i > Len(coords) THEN <<>>
    ELSE LET lat == coords[i][1]
             lon == coords[i][2]
             dlat == lat - prev_lat
             dlon == lon - prev_lon
         IN encode_value(dlat) \o encode_value(dlon)
                \o EncodeFrom(coords, i + 1, lat, lon)

encode_polyline(coords) ==
    IF coords = <<>> THEN <<>> ELSE EncodeFrom(coords, 1, 0, 0)

\* The inner `while True` of decode_polyline: reads chunks from index until
\* one below 0x20; returns [result, index].  Reading past the end of the
\* string is Python's IndexError.
RECURSIVE DecodeChunks(_, _, _, _)
DecodeChunks(polyline, index, shift, result) ==
    IF index > Len(polyline) THEN [result |-> result, index |-> index, err |-> TRUE]
    ELSE LET byte == polyline[index] - 63
             r == result + (byte % 32) * shift
         IN IF byte < 32
            THEN [result |-> r, index |-> index + 1, err |-> FALSE]
            ELSE DecodeChunks(polyline, index + 1, shift * 32, r)

UnZigZag(result) ==
    IF result % 2 = 1 THEN -(result \div 2) - 1 ELSE result \div 2

\* decode_polyline: the accumulated lat/lon divided by 1e5 are degrees, i.e.
\* the accumulated integers are the coordinates in 1e-5 degree.
RECURSIVE DecodeFrom(_, _, _, _)
DecodeFrom(polyline, index, lat, lon) ==
    IF index > Len(polyline) THEN <<>>
    ELSE LET a == DecodeChunks(polyline, index, 1, 0)
             b == DecodeChunks(polyline, a.index, 1, 0)
             nlat == lat + UnZigZag(a.result)
             nlon == lon + UnZigZag(b.result)
         IN IF a.err \/ b.err THEN <<"IndexError">>
            ELSE <<<<nlat, nlon>>>> \o DecodeFrom(polyline, b.index, nlat, nlon)

decode_polyline(polyline) == DecodeFrom(polyline, 1, 0, 0)

CoordValues == (-MaxCoord)..MaxCoord
Points == CoordValues \X CoordValues
CoordSeqs == UNION {[1..n -> Points] : n \in 0..MaxPoints}

InitPolyline ==
    /\ pc = "call"
    /\ args \in CoordSeqs
    /\ ret = NoRet
    /\ encoded = NoRet
    /\ calls = <<>>
    /\ frame = <<>>

Encode ==
    /\ pc = "call"
    /\ encoded' = encode_polyline(args)
    /\ pc' = "encoded"
    /\ UNCHANGED <<args, ret, calls, frame>>

Decode ==
    /\ pc = "encoded"
    /\ ret' = decode_polyline(encoded)
    /\ pc' = "done"
    /\ UNCHANGED <<args, encoded, calls, frame>>

NextPolyline == Encode \/ Decode

SpecPolyline == InitPolyline /\ [][NextPolyline]_vars

\* C1: polyline round-trip: for every coordinate sequence already rounded to
\* 5 decimal places, decode_polyline(encode_polyline(coords)) equals coords.
C1_RoundTrip == pc = "done" => ret = args

(***************************************************************************)
(* Difficulty scoring engine: constants                                    *)
(***************************************************************************)

\* Labels are modelled by their rank on the scale EASY < MODERATE < HARD <
\* EXTREME; LabelName gives DifficultyLabel's value.
EASY == 1
MODERATE == 2
HARD == 3
EXTREME == 4
LabelName == <<"EASY", "MODERATE", "HARD", "EXTREME">>

\* Thresholds on S_km, in 1e-6 km.
THRESHOLD_EASY == 8000000
THRESHOLD_MODERATE == 16000000
THRESHOLD_HARD == 30000000
\* |latitude| in degrees; slope in 1/1000; multipliers in 1e-5.
HIGH_LATITUDE_THRESHOLD == 60
STEEP_SLOPE_THRESHOLD == 150
MAX_TOTAL_MULTIPLIER == 300000
ONE == 100000

\* (elevation m, multiplier in 1e-5)
ELEVATION_ANCHORS ==
    << <<1500, 100000>>, <<2500, 105000>>, <<3000, 110000>>,
       <<3500, 120000>>, <<4000, 130000>>, <<4500, 145000>>,
       <<5000, 160000>>, <<5500, 180000>>, <<6000, 210000>>,
       <<7000, 250000>> >>

\* The `for i in range(len(anchors) - 1)` loop of _get_elevation_multiplier:
\* linear interpolation inside the first segment with h1 <= e < h2, and the
\* trailing `return 1.0` when no segment matches.  For integer e the
\* interpolated value is an integer number of 1e-5 (every segment's slope
\* is a multiple of 5e-5 per metre).
RECURSIVE InterpolateFrom(_, _)
InterpolateFrom(elevation_m, i) ==
    IF i > Len(ELEVATION_ANCHORS) - 1 THEN ONE
    ELSE LET h1 == ELEVATION_ANCHORS[i][1]
             k1 == ELEVATION_ANCHORS[i][2]
             h2 == ELEVATION_ANCHORS[i + 1][1]
             k2 == ELEVATION_ANCHORS[i + 1][2]
         IN IF h1 <= elevation_m /\ elevation_m < h2
            THEN k1 + ((elevation_m - h1) * (k2 - k1)) \div (h2 - h1)
            ELSE InterpolateFrom(elevation_m, i + 1)

\* A mutant of the clamp: elevations above the last anchor fall through to
\* the trailing `return 1.0`.
GetElevationMultiplierNoClamp(elevation_m) ==
    IF elevation_m = None THEN ONE
    ELSE IF elevation_m < 1500 THEN ONE
    ELSE InterpolateFrom(elevation_m, 1)

\* _get_elevation_multiplier; elevation_m is None or metres.
GetElevationMultiplier(elevation_m) ==
    IF elevation_m = None THEN ONE
    ELSE IF elevation_m < 1500 THEN ONE
    ELSE IF elevation_m >= ELEVATION_ANCHORS[Len(ELEVATION_ANCHORS)][1]
         THEN ELEVATION_ANCHORS[Len(ELEVATION_ANCHORS)][2]
    ELSE InterpolateFrom(elevation_m, 1)

\* Bounds of the altitude check: every integer elevation MinElevation ..
\* MaxElevation (metres), and None.
MinElevation == 0 - 500
MaxElevation == 10000

InitAltitude ==
    /\ pc = "call"
    /\ args \in {None} \cup (MinElevation..MaxElevation)
    /\ ret = 0
    /\ encoded = NoRet
    /\ calls = <<>>
    /\ frame = <<>>

Multiplier ==
    /\ pc = "call"
    /\ ret' = GetElevationMultiplier(args)
    /\ pc' = "done"
    /\ UNCHANGED <<args, encoded, calls, frame>>

NextAltitude == Multiplier

SpecAltitude == InitAltitude /\ [][NextAltitude]_vars

\* The anchor segment [h1, h2) an elevation lies in, for stating C7.
AnchorSegment(e) ==
    CHOOSE i \in 1..(Len(ELEVATION_ANCHORS) - 1) :
        ELEVATION_ANCHORS[i][1] <= e /\ e < ELEVATION_ANCHORS[i + 1][1]

\* C7: the altitude multiplier is 1.00 for an absent elevation and below
\* 1500 m, the anchor value at each anchor, 2.50 at or above 7000 m, the
\* linear interpolation of the surrounding anchors in between (stated
\* without division: (m - k1) * (h2 - h1) = (e - h1) * (k2 - k1)); it is
\* non-decreasing in the elevation and stays within [1.00, 2.50].
C7_AltitudeMultiplier ==
    pc = "done" =>
        /\ args = None => ret = 100000
        /\ args # None =>
            /\ args < 1500 => ret = 100000
            /\ args >= 7000 => ret = 250000
            /\ \A j \in 1..Len(ELEVATION_ANCHORS) :
                   args = ELEVATION_ANCHORS[j][1] => ret = ELEVATION_ANCHORS[j][2]
            /\ (1500 <= args /\ args < 7000) =>
                   LET i == AnchorSegment(args)
                       h1 == ELEVATION_ANCHORS[i][1]
                       k1 == ELEVATION_ANCHORS[i][2]
                       h2 == ELEVATION_ANCHORS[i + 1][1]
                       k2 == ELEVATION_ANCHORS[i + 1][2]
                   IN (ret - k1) * (h2 - h1) = (args - h1) * (k2 - k1)
            /\ args > MinElevation => GetElevationMultiplier(args - 1) <= ret
        /\ 100000 <= ret /\ ret <= 250000

\* C7 witness: a call strictly between two anchors returned an interpolated
\* value, here 2000 m -> 1.025.
C7_Witness == pc = "done" /\ args = 2000 /\ ret = 102500

(***************************************************************************)
(* Mixed numbers: exact non-negative rationals i + n/d with 0 <= n < d,    *)
(* used where a product of Python floats does not fit a fixed-point        *)
(* integer.                                                                *)
(***************************************************************************)
\* Every factor of the code is a decimal fraction, so a denominator is a
\* product of 2s and 5s; DecimalGCD(n, d) is the greatest common divisor of
\* n and such a d.
DecimalDivisors ==
    {1, 2, 4, 8, 16, 32, 64, 128, 256, 512} \X {1, 5, 25, 125, 625, 3125, 15625}
DecimalGCD(n, d) ==
    LET common == {c[1] * c[2] : c \in {c \in DecimalDivisors :
                                            /\ d % (c[1] * c[2]) = 0
                                            /\ n % (c[1] * c[2]) = 0}}
    IN CHOOSE g \in common : \A h \in common : h <= g
\* i + n/d in lowest terms
MixedNorm(i, n, d) ==
    LET g == DecimalGCD(n % d, d)
    IN [i |-> i + n \div d, n |-> (n % d) \div g, d |-> d \div g]
MixedOfInt(k) == [i |-> k, n |-> 0, d |-> 1]

\* m * p / q for integers p >= 0, q > 0
MixedMulRat(m, p, q) ==
    LET ip == m.i * p
    IN MixedNorm(ip \div q, (ip % q) * m.d + m.n * p, m.d * q)

\* m * k for an integer k >= 0
MixedTimes(m, k) ==
    MixedNorm(m.i * k + (m.n * k) \div m.d, (m.n * k) % m.d, m.d)

\* m <= k and m > k for an integer k
MixedLeq(m, k) == m.i < k \/ (m.i = k /\ m.n = 0)
MixedGt(m, k) == ~MixedLeq(m, k)
\* equality of values (both in lowest terms)
MixedEq(a, b) == a.i = b.i /\ a.n = b.n /\ a.d = b.d

\* round(S_km, 2) of a mixed number of 1e-6 km, in 0.01 km.  The value is a
\* product of floats: when the exact product lies half-way between two
\* hundredths (IsTie) the float lies just below or just above it, and round()
\* gives either neighbour (18 * 1.05 * 1.05 gives 19.84, 30 * 1.3 * 1.1 * 1.05
\* gives 45.05).  Round2 is the lower neighbour in that case and
\* RoundingOutcomes lists both.
IsTie(m) == m.i % 10000 = 5000 /\ m.n = 0
Round2(m) ==
    LET q == m.i \div 10000
        r == m.i % 10000
    IN IF r > 5000 \/ (r = 5000 /\ m.n > 0) THEN q + 1 ELSE q

(***************************************************************************)
(* Difficulty scoring engine: text attributes                              *)
(***************************************************************************)

\* str.upper() and str.lower() on the texts the model draws its attributes
\* from: <<text, upper, lower>>; any other text is unchanged by both.
CaseTable ==
    { <<"easy", "EASY", "easy">>, <<"hard", "HARD", "hard">>,
      <<"Extreme", "EXTREME", "extreme">>, <<"EASY", "EASY", "easy">>,
      <<"MODERATE", "MODERATE", "moderate">>, <<"HARD", "HARD", "hard">>,
      <<"EXTREME", "EXTREME", "extreme">>, <<"EXPERT", "EXPERT", "expert">>,
      <<"ATTRACTION", "ATTRACTION", "attraction">>,
      <<"RESTAURANT", "RESTAURANT", "restaurant">>,
      <<"HOTEL", "HOTEL", "hotel">>, <<"hotel", "HOTEL", "hotel">>,
      <<"SHOPPING", "SHOPPING", "shopping">>, <<"PARK", "PARK", "park">>,
      <<"WALKING", "WALKING", "walking">>, <<"HIKING", "HIKING", "hiking">>,
      <<"VEHICLE", "VEHICLE", "vehicle">>, <<"vehicle", "VEHICLE", "vehicle">>,
      <<"CABLE_CAR", "CABLE_CAR", "cable_car">>,
      <<"Cable_Car", "CABLE_CAR", "cable_car">>, <<"BOAT", "BOAT", "boat">>,
      <<"glacier", "glacier", "glacier">>, <<"Volcano", "VOLCANO", "volcano">>,
      <<"GLACIER", "GLACIER", "glacier">>, <<"lake", "LAKE", "lake">> }

Upper(text) ==
    IF \E c \in CaseTable : c[1] = text
    THEN (CHOOSE c \in CaseTable : c[1] = text)[2] ELSE text
Lower(text) ==
    IF \E c \in CaseTable : c[1] = text
    THEN (CHOOSE c \in CaseTable : c[1] = text)[3] ELSE text

\* Truthiness of a text-or-None value: None and "" are falsy.
TruthyStr(v) == v # Null /\ v # ""

LabelNames == {"EASY", "MODERATE", "HARD", "EXTREME"}
\* DifficultyLabel[name]
LabelOf(name) == CHOOSE l \in 1..4 : LabelName[l] = name

\* A duration text (visitDuration, typicalStay) is a sequence of tokens
\* <<kind, value>>:
\*   <<"half_day", 0>>  the phrase for half a day
\*   <<"full_day", 0>>, <<"full_day", 1>>   the two phrases for a whole day
\*   <<"num", n>>       the digits of the integer n
\*   <<"hour", k>>      an hour unit (k = 0 the Chinese word, k > 0 h/hr/hrs)
\*   <<"day", 0>>       the day unit
\*   <<"minute", k>>    a minute unit (k = 0 the Chinese word, k > 0 min/mins)
\*   <<"space", 0>>, <<"other", 0>>   white space, any other character
\* A missing key is AbsentText and a None value is NullText.
AbsentText == << <<"ABSENT", 0>> >>
NullText == << <<"NULL", 0>> >>
GetText(v) == IF v = AbsentText THEN NullText ELSE v
TruthyText(v) == v # NullText /\ v # <<>>

HasToken(text, kind) == \E i \in 1..Len(text) : text[i][1] = kind

\* re.search of number, optional white space, unit: the positions i of a
\* number that is followed by the unit after any run of spaces.
RECURSIVE SkipSpaces(_, _)
SkipSpaces(text, j) ==
    IF j <= Len(text) /\ text[j][1] = "space" THEN SkipSpaces(text, j + 1) ELSE j

NumberBeforeUnit(text, unit) ==
    { i \in 1..Len(text) :
        /\ text[i][1] = "num"
        /\ LET j == SkipSpaces(text, i + 1)
           IN j <= Len(text) /\ text[j][1] = unit }

FirstOf(S) == CHOOSE i \in S : \A j \in S : i <= j

\* A mutant of _parse_duration: the numeric patterns are tried before the
\* whole-day phrases.
ParseDurationNumericFirst(text) ==
    IF ~TruthyText(text) THEN None
    ELSE IF NumberBeforeUnit(text, "hour") # {}
         THEN text[FirstOf(NumberBeforeUnit(text, "hour"))][2] * 60
    ELSE IF NumberBeforeUnit(text, "day") # {}
         THEN text[FirstOf(NumberBeforeUnit(text, "day"))][2] * 8 * 60
    ELSE IF NumberBeforeUnit(text, "minute") # {}
         THEN text[FirstOf(NumberBeforeUnit(text, "minute"))][2]
    ELSE IF HasToken(text, "half_day") THEN 4 * 60
    ELSE IF HasToken(text, "full_day") THEN 8 * 60
    ELSE None

\* _parse_duration: the duration in minutes (hours * 60), or None.
ParseDuration(text) ==
    IF ~TruthyText(text) THEN None
    ELSE IF HasToken(text, "half_day") THEN 4 * 60
    ELSE IF HasToken(text, "full_day") THEN 8 * 60
    ELSE IF NumberBeforeUnit(text, "hour") # {}
         THEN text[FirstOf(NumberBeforeUnit(text, "hour"))][2] * 60
    ELSE IF NumberBeforeUnit(text, "day") # {}
         THEN text[FirstOf(NumberBeforeUnit(text, "day"))][2] * 8 * 60
    ELSE IF NumberBeforeUnit(text, "minute") # {}
         THEN text[FirstOf(NumberBeforeUnit(text, "minute"))][2]
    ELSE None

\* typical_stay_map.get(typical_stay), in minutes
TypicalStayMap(text) ==
    IF text = << <<"num", 30>>, <<"minute", 0>> >> THEN 30
    ELSE IF text = << <<"num", 1>>, <<"hour", 0>> >> THEN 60
    ELSE IF text = << <<"num", 2>>, <<"hour", 0>> >> THEN 120
    ELSE IF text = << <<"half_day", 0>> >> THEN 240
    ELSE IF text = << <<"full_day", 0>> >> THEN 480
    ELSE None

\* Lines 244-245: hours after the visitDuration has been parsed
ParsedVisitDuration(input_data) ==
    LET visit_duration == GetText(input_data.visitDuration)
    IN IF TruthyText(visit_duration) THEN ParseDuration(visit_duration) ELSE None

\* Lines 248-259: typical_stay_map.get is called
TypicalStayConsulted(input_data) ==
    /\ ParsedVisitDuration(input_data) = None
    /\ TruthyText(GetText(input_data.typicalStay))

\* The hours resolved by _infer_distance_km (lines 244-259), in minutes.
ResolveHours(input_data) ==
    LET visit_duration == GetText(input_data.visitDuration)
        hours == IF TruthyText(visit_duration)
                 THEN ParseDuration(visit_duration) ELSE None
        typical_stay == GetText(input_data.typicalStay)
    IN IF hours # None THEN hours
       ELSE IF TruthyText(typical_stay) THEN TypicalStayMap(typical_stay)
       ELSE None

\* A mutant of pace_map: only WALKING has a pace of its own.
PaceMapWalkingOnly(access_type) ==
    IF access_type = "WALKING" THEN 8 ELSE None

\* pace_map and category_pace, in 0.5 km/h
PaceMap(access_type) ==
    CASE access_type = "WALKING" -> 8
      [] access_type = "HIKING" -> 7
      [] access_type = "VEHICLE" -> 60
      [] access_type = "CABLE_CAR" -> 10
      [] OTHER -> None
CategoryPace(category) ==
    CASE category = "ATTRACTION" -> 6
      [] category = "RESTAURANT" -> 1
      [] category = "HOTEL" -> 0
      [] OTHER -> 7

\* What a call returns: a value, or an exception raised.
Value(v) == [status |-> "ok", value |-> v, error |-> ""]
Raise(e) == [status |-> "raise", value |-> None, error |-> e]

\* _infer_distance_km: the distance in 0.01 km, None, or an exception.
\* minutes * pace / 120 km = minutes * pace * 5 / 6 hundredths of a km.
InferDistanceKm(input_data) ==
    LET hours == ResolveHours(input_data)
        access == GetStrOr(input_data.accessType, "")
        cat == GetStrOr(input_data.category, "")
    IN IF hours = None THEN Value(None)
       ELSE IF access = Null \/ cat = Null THEN Raise("AttributeError")
       ELSE LET access_type == Upper(access)
                category == Upper(cat)
                pace == IF PaceMap(access_type) # None
                        THEN PaceMap(access_type) ELSE CategoryPace(category)
                distance == (hours * pace * 5) \div 6
                limited == IF category \in {"RESTAURANT", "HOTEL"}
                           THEN Min(distance, 300) ELSE Min(distance, 1500)
            IN Value(Max(20, limited))

\* A mutant of _default_label_by_category: every category is MODERATE.
DefaultLabelByCategoryFlat(category) == MODERATE

\* _default_label_by_category
DefaultLabelByCategory(category) ==
    IF ~TruthyStr(category) THEN MODERATE
    ELSE IF Upper(category) \in {"RESTAURANT", "HOTEL", "SHOPPING"} THEN EASY
    ELSE IF Upper(category) = "ATTRACTION" THEN MODERATE
    ELSE MODERATE

(***************************************************************************)
(* Difficulty scoring engine: DifficultyEstimator.estimate_difficulty      *)
(***************************************************************************)

\* A mutant of _needs_acclimatization_penalty: no penalty unless the input
\* says the traveller is not acclimatized.
NeedsAcclimatizationPenaltyOptIn(input_data) ==
    input_data.hasAcclimatization = "False"

\* _needs_acclimatization_penalty.  hasAcclimatization is "True", "False",
\* Null or Absent.
NeedsAcclimatizationPenalty(input_data) ==
    LET has_acclimatization == GetStrOr(input_data.hasAcclimatization, "False")
        avg_sleep_elevation == Get(input_data.avgSleepElevation)
    IN IF has_acclimatization = "True" THEN FALSE
       ELSE IF avg_sleep_elevation # None /\ avg_sleep_elevation >= 2500 THEN FALSE
       ELSE TRUE

\* _has_long_exposure; distance_km is the caller's argument (0.01 km or
\* None), not the inferred distance: distance_km / 3.5 > 8.0.
HasLongExposure(input_data, distance_km) ==
    LET exposure_hours == Get(input_data.exposureHours)
    IN IF exposure_hours # None THEN exposure_hours > 8
       ELSE IF distance_km # None THEN distance_km * 10 > 8 * 3500
       ELSE FALSE

\* _has_extreme_cold: TRUE, FALSE, or the TypeError of `None > 3.0`.
HasExtremeCold(input_data) ==
    LET feels_like_temp == Get(input_data.feelsLikeTemp)
        cold_duration_hours == GetOr(input_data.coldDurationHours, 0)
    IN IF feels_like_temp # None /\ feels_like_temp < 0 - 10
       THEN IF cold_duration_hours = None THEN Raise("TypeError")
            ELSE Value(cold_duration_hours > 3)
       ELSE Value(FALSE)

\* _has_heavy_load
HasHeavyLoad(input_data) ==
    LET load_weight_kg == Get(input_data.loadWeightKg)
    IN load_weight_kg # None /\ load_weight_kg > 12

\* A mutant of _is_high_latitude: the sign of the latitude is kept.
IsHighLatitudeNorth(latitude) ==
    IF latitude = None THEN FALSE
    ELSE latitude >= HIGH_LATITUDE_THRESHOLD

\* _is_high_latitude
IsHighLatitude(latitude) ==
    IF latitude = None THEN FALSE
    ELSE Abs(latitude) >= HIGH_LATITUDE_THRESHOLD

\* A mutant of _bump_one_level: two levels up.
BumpTwoLevels(label) ==
    CASE label = EASY -> HARD
      [] label = MODERATE -> EXTREME
      [] label = HARD -> EXTREME
      [] label = EXTREME -> EXTREME

\* _bump_one_level
BumpOneLevel(label) ==
    CASE label = EASY -> MODERATE
      [] label = MODERATE -> HARD
      [] label = HARD -> EXTREME
      [] label = EXTREME -> EXTREME

\* `max_elev_m or input_data.get('elevationMeters')`: a max_elev_m of None
\* or 0 is falsy.
ElevationSource(input_data, max_elev_m) ==
    IF max_elev_m # None /\ max_elev_m # 0 THEN max_elev_m
    ELSE Get(input_data.elevationMeters)

\* optional_multipliers (lines 122-144) as fractions <<p, q>>, given the
\* outcome of _has_extreme_cold.
OptionalMultipliers(input_data, distance_km, cold) ==
    (IF NeedsAcclimatizationPenalty(input_data) THEN << <<11, 10>> >> ELSE <<>>)
    \o (IF HasLongExposure(input_data, distance_km) THEN << <<21, 20>> >> ELSE <<>>)
    \o (IF cold THEN << <<21, 20>> >> ELSE <<>>)
    \o (IF HasHeavyLoad(input_data) THEN << <<21, 20>> >> ELSE <<>>)

\* A mutant of the optional notes: the heavy-load note is recorded before
\* the others.
OptionalNotesLoadFirst(input_data, distance_km, cold) ==
    (IF HasHeavyLoad(input_data) THEN <<"heavy load (>12kg): x1.05">> ELSE <<>>)
    \o (IF NeedsAcclimatizationPenalty(input_data)
        THEN <<"lack acclimatization: x1.10">> ELSE <<>>)
    \o (IF HasLongExposure(input_data, distance_km)
        THEN <<"long exposure (>8h): x1.05">> ELSE <<>>)
    \o (IF cold THEN <<"extreme cold (<-10C >3h): x1.05">> ELSE <<>>)

\* optional_notes (lines 122-144)
OptionalNotes(input_data, distance_km, cold) ==
    (IF NeedsAcclimatizationPenalty(input_data)
     THEN <<"lack acclimatization: x1.10">> ELSE <<>>)
    \o (IF HasLongExposure(input_data, distance_km)
        THEN <<"long exposure (>8h): x1.05">> ELSE <<>>)
    \o (IF cold THEN <<"extreme cold (<-10C >3h): x1.05">> ELSE <<>>)
    \o (IF HasHeavyLoad(input_data) THEN <<"heavy load (>12kg): x1.05">> ELSE <<>>)

\* total_multiplier (lines 147-149), in 1e-5: `for mult in
\* optional_multipliers: total_multiplier *= mult`
RECURSIVE TimesAll(_, _, _)
TimesAll(total, mults, i) ==
    IF i > Len(mults) THEN total
    ELSE TimesAll(MixedMulRat(total, mults[i][1], mults[i][2]), mults, i + 1)

TotalMultiplier(altitude_multiplier, optional_multipliers) ==
    TimesAll(MixedOfInt(altitude_multiplier), optional_multipliers, 1)

\* A mutant of the cap: the ceiling is never applied.
AppliedMultiplierUncapped(total_multiplier) == total_multiplier

\* The multiplier that lines 152-160 apply to base_S_km.
AppliedMultiplier(total_multiplier) ==
    IF MixedGt(total_multiplier, MAX_TOTAL_MULTIPLIER)
    THEN MixedOfInt(MAX_TOTAL_MULTIPLIER)
    ELSE total_multiplier

\* base_S_km (0.01 km) times a multiplier (1e-5), in 1e-6 km
TimesBase(base_S_km, multiplier) ==
    MixedTimes(MixedMulRat(multiplier, 1, 10), base_S_km)

\* A mutant of lines 171-178: a boundary value belongs to the upper class.
ClassifyStrict(S_km) ==
    IF ~MixedLeq(S_km, THRESHOLD_EASY - 1) THEN
        IF ~MixedLeq(S_km, THRESHOLD_MODERATE - 1) THEN
            IF ~MixedLeq(S_km, THRESHOLD_HARD - 1) THEN EXTREME ELSE HARD
        ELSE MODERATE
    ELSE EASY

\* Lines 171-178
Classify(S_km) ==
    IF MixedLeq(S_km, THRESHOLD_EASY) THEN EASY
    ELSE IF MixedLeq(S_km, THRESHOLD_MODERATE) THEN MODERATE
    ELSE IF MixedLeq(S_km, THRESHOLD_HARD) THEN HARD
    ELSE EXTREME

\* slope_avg as the fraction [num, den]: the argument (1/1000), or lines
\* 181-182: E / (D * 1000.0) when it is None and D > 0 and E > 0.
SlopeAvg(slope_avg, D, E) ==
    IF slope_avg = None
    THEN IF D > 0 /\ E > 0 THEN [num |-> E, den |-> D * 10]
         ELSE [num |-> 0, den |-> 1]
    ELSE [num |-> slope_avg, den |-> 1000]

\* A mutant of the steep-slope test: strictly above the threshold.
IsSteepStrict(slope) ==
    slope.num # 0 /\ slope.num * 1000 > STEEP_SLOPE_THRESHOLD * slope.den

\* `slope_avg and slope_avg >= STEEP_SLOPE_THRESHOLD`
IsSteep(slope) ==
    slope.num # 0 /\ slope.num * 1000 >= STEEP_SLOPE_THRESHOLD * slope.den

\* A mutant of the accessType stage: it only ever lowers to MODERATE.
AccessTypeStageWeak(label, access_type) ==
    IF access_type \in {"VEHICLE", "CABLE_CAR"} /\ label # EASY
    THEN Min(label, MODERATE) ELSE label

\* Lines 190-195: the label after the accessType stage
AccessTypeStage(label, access_type) ==
    IF access_type \in {"VEHICLE", "CABLE_CAR"} /\ label # EASY
    THEN EASY ELSE label

\* A mutant of the subCategory stage: it raises every label one level.
SubCategoryStageBump(label, sub_category) ==
    IF sub_category \in {"glacier", "volcano"}
    THEN BumpOneLevel(label) ELSE label

\* Lines 198-202: the label after the subCategory stage
SubCategoryStage(label, sub_category) ==
    IF sub_category \in {"glacier", "volcano"} /\ label = EASY
    THEN MODERATE ELSE label

\* What estimate_difficulty returns: (label, S_km, notes) with S_km in
\* 0.01 km, or an exception.  path names the return statement taken; the
\* remaining fields record the final values of the locals base_S_km,
\* the multiplier applied to it, S_km before round(), the label of lines
\* 171-178 and whether the slope test fired.
Locals(base_S_km, total, multiplier, S, base_label, steep) ==
    [base_S_km |-> base_S_km, total_multiplier |-> total,
     multiplier |-> multiplier, S |-> S,
     base_label |-> base_label, steep |-> steep]
NoLocals == Locals(0, MixedOfInt(0), MixedOfInt(0), MixedOfInt(0), 0, FALSE)

Returned(path, label, S_km, notes, locals) ==
    [locals |-> locals, status |-> "ok", error |-> "", path |-> path,
     label |-> label, S_km |-> S_km, notes |-> notes]
Raised(e) ==
    [status |-> "raise", error |-> e, path |-> "", label |-> 0,
     S_km |-> 0, notes |-> <<>>, locals |-> NoLocals]

\* Lines 112-204, with D resolved (0.01 km).
Computed(input_data, D, distance_km, gain_m, max_elev_m, slope_avg) ==
    LET E == IF gain_m # None THEN gain_m ELSE 0
        base_S_km == D + E
        elevation_m == ElevationSource(input_data, max_elev_m)
        altitude_multiplier == GetElevationMultiplier(elevation_m)
        cold == HasExtremeCold(input_data)
    IN IF cold.status = "raise" THEN Raised(cold.error)
       ELSE
       LET optional_multipliers ==
               OptionalMultipliers(input_data, distance_km, cold.value)
           total_multiplier ==
               TotalMultiplier(altitude_multiplier, optional_multipliers)
           capped == MixedGt(total_multiplier, MAX_TOTAL_MULTIPLIER)
           multiplier == AppliedMultiplier(total_multiplier)
           S1 == TimesBase(base_S_km, multiplier)
           notes1 ==
               (IF altitude_multiplier > ONE THEN <<"altitude">> ELSE <<>>)
               \o OptionalNotes(input_data, distance_km, cold.value)
               \o (IF capped THEN <<"total multiplier capped at 3.00">> ELSE <<>>)
           high == IsHighLatitude(Get(input_data.latitude))
           S_km == IF high THEN MixedMulRat(S1, 6, 5) ELSE S1
           notes2 == notes1 \o (IF high THEN <<"high latitude: x1.2">> ELSE <<>>)
           base_label == Classify(S_km)
           steep == IsSteep(SlopeAvg(slope_avg, D, E))
           label3 == IF steep THEN BumpOneLevel(base_label) ELSE base_label
           notes3 == notes2 \o (IF steep THEN <<"slope: bump one level">> ELSE <<>>)
           access == GetStrOr(input_data.accessType, "")
       IN IF access = Null THEN Raised("AttributeError")
          ELSE
          LET label4 == AccessTypeStage(label3, Upper(access))
              notes4 == notes3 \o (IF label4 # label3
                                   THEN <<"accessType: vehicle/cable_car">>
                                   ELSE <<>>)
              sub == GetStr(input_data.subCategory)
              sub_category == IF TruthyStr(sub) THEN Lower(sub) ELSE ""
              label5 == SubCategoryStage(label4, sub_category)
              notes5 == notes4 \o (IF label5 # label4
                                   THEN <<"subCategory: at least MODERATE">>
                                   ELSE <<>>)
          IN Returned("computed", label5, Round2(S_km), notes5,
                      Locals(base_S_km, total_multiplier, multiplier, S_km,
                             base_label, steep))

\* A mutant of estimate_difficulty: the official rating is consulted after
\* the distance has been resolved, so the category fallback comes first.
EstimateDifficultyLate(input_data, distance_km, gain_m, max_elev_m, slope_avg) ==
    LET trail_difficulty == GetStr(input_data.trailDifficulty)
        inferred == IF distance_km = None THEN InferDistanceKm(input_data)
                    ELSE Value(distance_km)
    IN IF inferred.status = "raise" THEN Raised(inferred.error)
       ELSE IF inferred.value = None
       THEN Returned("fallback",
                     DefaultLabelByCategory(GetStr(input_data.category)), 0,
                     <<"fallback: category default">>, NoLocals)
       ELSE IF TruthyStr(trail_difficulty) /\ Upper(trail_difficulty) \in LabelNames
       THEN Returned("override", LabelOf(Upper(trail_difficulty)), 0,
                     <<"use: trailDifficulty">>, NoLocals)
       ELSE Computed(input_data, inferred.value, distance_km, gain_m,
                     max_elev_m, slope_avg)

\* estimate_difficulty(input_data, distance_km, gain_m, max_elev_m, slope_avg)
EstimateDifficulty(input_data, distance_km, gain_m, max_elev_m, slope_avg) ==
    LET trail_difficulty == GetStr(input_data.trailDifficulty)
    IN IF TruthyStr(trail_difficulty) /\ Upper(trail_difficulty) \in LabelNames
       THEN Returned("override", LabelOf(Upper(trail_difficulty)), 0,
                     <<"use: trailDifficulty">>, NoLocals)
       ELSE
       LET inferred == IF distance_km = None THEN InferDistanceKm(input_data)
                       ELSE Value(distance_km)
       IN IF inferred.status = "raise" THEN Raised(inferred.error)
          ELSE IF inferred.value = None
          THEN Returned("fallback",
                        DefaultLabelByCategory(GetStr(input_data.category)), 0,
                        <<"fallback: category default">>, NoLocals)
          ELSE Computed(input_data, inferred.value, distance_km, gain_m,
                        max_elev_m, slope_avg)

(***************************************************************************)
(* Calls of estimate_difficulty                                            *)
(***************************************************************************)

\* input_data; risk = <<hasAcclimatization, avgSleepElevation, exposureHours,
\* feelsLikeTemp, coldDurationHours, loadWeightKg>>
InputData(td, cat, acc, sub, vd, ts, elev, lat, risk) ==
    [trailDifficulty |-> td, category |-> cat, accessType |-> acc,
     subCategory |-> sub, visitDuration |-> vd, typicalStay |-> ts,
     elevationMeters |-> elev, latitude |-> lat,
     hasAcclimatization |-> risk[1], avgSleepElevation |-> risk[2],
     exposureHours |-> risk[3], feelsLikeTemp |-> risk[4],
     coldDurationHours |-> risk[5], loadWeightKg |-> risk[6]]

\* Distances in 0.01 km, gain and elevation in m, slope in 1/1000.
Call(input_data, distance_km, gain_m, max_elev_m, slope_avg) ==
    [input_data |-> input_data, distance_km |-> distance_km, gain_m |-> gain_m,
     max_elev_m |-> max_elev_m, slope_avg |-> slope_avg]

NoRisk == <<Absent, Missing, Missing, Missing, Missing, Missing>>
\* Risk attributes around each threshold (no None values).
RiskProfiles ==
    {Absent, "True"} \X {Missing, 2499, 2500} \X {Missing, 8, 9}
        \X {Missing, 0 - 10, 0 - 11} \X {Missing, 3, 4} \X {Missing, 12, 13}

Text2h == << <<"num", 2>>, <<"space", 0>>, <<"hour", 1>> >>
DurationTexts ==
    { AbsentText, NullText, <<>>,
      << <<"half_day", 0>> >>,
      << <<"full_day", 1>> >>,
      Text2h,
      << <<"num", 1>>, <<"day", 0>> >>,
      << <<"num", 30>>, <<"minute", 0>> >>,
      << <<"num", 1>>, <<"day", 0>>, <<"num", 2>>, <<"hour", 0>> >>,
      << <<"half_day", 0>>, <<"num", 2>>, <<"hour", 0>> >>,
      << <<"num", 3>>, <<"other", 0>> >> }
StayTexts ==
    { AbsentText, NullText,
      << <<"num", 2>>, <<"hour", 0>> >>,
      << <<"full_day", 0>> >>,
      << <<"num", 2>>, <<"hour", 1>> >> }

\* Calls with an official rating (and calls whose trailDifficulty is no
\* rating), against every kind of other argument.
OverrideCalls(a) ==
    \E td \in {"EASY", "MODERATE", "HARD", "EXTREME", "hard", "Extreme",
                "EXPERT", ""},
        acc \in {Absent, Null, "VEHICLE"},
        sub \in {Absent, "glacier"},
        lat \in {Missing, 75},
        risk \in {NoRisk, <<Absent, Missing, 9, 0 - 11, 4, 13>>,
                  <<Null, None, None, 0 - 11, None, None>>},
        d \in {None, 500}, g \in {None, 100}, m \in {None, 7000},
        sl \in {None, 200} :
        a = Call(InputData(td, Absent, acc, sub, AbsentText, AbsentText, Missing,
                     lat, risk), d, g, m, sl)

\* Calls over the elevation and every combination of the risk attributes.
RiskCalls(a) ==
    \E acc \in {Absent, "HIKING"},
        elev \in {Missing, 1000, 2000, 4000, 7000},
        lat \in {Missing, 59, 60},
        risk \in RiskProfiles,
        d \in {1080, 3000} :
        a = Call(InputData(Absent, Absent, acc, Absent, AbsentText, AbsentText,
                     elev, lat, risk), d, 720, None, 67)

\* Calls over distance, gain and slope and the attributes of the label
\* stages.
LabelCalls(a) ==
    \E cat \in {Absent, "ATTRACTION"},
        acc \in {Absent, "HIKING", "VEHICLE", "Cable_Car"},
        sub \in {Absent, "glacier", "Volcano", "lake"},
        elev \in {Missing, 4000},
        lat \in {Missing, 0 - 60},
        has \in {Absent, "True"},
        d \in {None, 0, 500, 800, 801, 1080, 1600, 2500, 3000, 5000},
        g \in {None, 0, 720, 750, 2000},
        sl \in {None, 0, 67, 140, 150} :
        a = Call(InputData(Absent, cat, acc, sub, AbsentText, AbsentText, elev, lat,
                     <<has, Missing, Missing, Missing, Missing, Missing>>),
           d, g, None, sl)

\* Calls without a distance: inferred from the duration texts, or the
\* category fallback.
InferCalls(a) ==
    \E td \in {Absent, "EXPERT"},
        cat \in {Absent, "", "ATTRACTION", "RESTAURANT", "HOTEL", "hotel",
                 "SHOPPING", "PARK"},
        acc \in {Absent, "", "WALKING", "HIKING", "VEHICLE", "CABLE_CAR",
                 "BOAT"},
        sub \in {Absent, "glacier"},
        vd \in DurationTexts,
        ts \in StayTexts,
        g \in {None, 0},
        sl \in {None, 150} :
        a = Call(InputData(td, cat, acc, sub, vd, ts, Missing, Missing, NoRisk),
           None, g, None, sl)

\* Calls with None stored under the attributes' keys.
NullCalls(a) ==
    \E td \in {Absent, Null},
        cat \in {Absent, Null},
        acc \in {Absent, Null, "HIKING"},
        sub \in {Absent, Null},
        vd \in {AbsentText, NullText, Text2h},
        feels \in {Missing, None, 0 - 11},
        cold \in {Missing, None, 4},
        rest \in { <<AbsentText, Missing, Missing, Absent, Missing, Missing,
                     Missing>>,
                   <<NullText, None, None, Null, None, None, None>> },
        d \in {None, 500} :
        a = Call(InputData(td, cat, acc, sub, vd, rest[1], rest[2], rest[3],
                     <<rest[4], rest[5], rest[6], feels, cold, rest[7]>>),
           d, None, None, None)

EstimateCalls(a) ==
    OverrideCalls(a) \/ RiskCalls(a) \/ LabelCalls(a) \/ InferCalls(a) \/ NullCalls(a)

InitEstimate ==
    /\ pc = "call"
    /\ EstimateCalls(args)
    /\ ret = Raised("")
    /\ encoded = NoRet
    /\ calls = <<>>
    /\ frame = <<>>

\* The values a call may return: the computed one, and at an exact rounding
\* tie also the one with S_km rounded up.
RoundingOutcomes(r) ==
    IF r.status = "ok" /\ r.path = "computed" /\ IsTie(r.locals.S)
    THEN {r, [r EXCEPT !.S_km = r.S_km + 1]}
    ELSE {r}

Estimate ==
    /\ pc = "call"
    /\ ret' \in RoundingOutcomes(
                   EstimateDifficulty(args.input_data, args.distance_km,
                                      args.gain_m, args.max_elev_m,
                                      args.slope_avg))
    /\ pc' = "done"
    /\ UNCHANGED <<args, encoded, calls, frame>>

\* test_steep_slope: after a call below the steep-slope threshold has
\* answered, the same input is submitted again with slope_avg = 0.15; the
\* first call and its answer are kept in calls.
Resubmit ==
    /\ pc = "done"
    /\ calls = <<>>
    /\ args.slope_avg = 140
    /\ calls' = <<[args |-> args, ret |-> ret]>>
    /\ args' = [args EXCEPT !.slope_avg = 150]
    /\ pc' = "call"
    /\ UNCHANGED <<ret, encoded, frame>>

NextEstimate == Estimate \/ Resubmit

SpecEstimate == InitEstimate /\ [][NextEstimate]_vars

(***************************************************************************)
(* Properties of estimate_difficulty                                       *)
(***************************************************************************)

\* The call's input attributes, as the code reads them.
TrailDifficultyRated ==
    LET trail_difficulty == GetStr(args.input_data.trailDifficulty)
    IN TruthyStr(trail_difficulty) /\ Upper(trail_difficulty) \in LabelNames
AccessMotorized ==
    LET access == GetStrOr(args.input_data.accessType, "")
    IN access # Null /\ Upper(access) \in {"VEHICLE", "CABLE_CAR"}
SubCategoryFloored ==
    LET sub == GetStr(args.input_data.subCategory)
    IN TruthyStr(sub) /\ Lower(sub) \in {"glacier", "volcano"}
ColdCheckRaises ==
    /\ Get(args.input_data.feelsLikeTemp) # None
    /\ Get(args.input_data.feelsLikeTemp) < 0 - 10
    /\ GetOr(args.input_data.coldDurationHours, 0) = None
OneLevelAbove(label) == IF label = EXTREME THEN EXTREME ELSE label + 1

\* C2: whenever trailDifficulty is one of EASY/MODERATE/HARD/EXTREME (in any
\* letter case) the call returns exactly that label with S_km = 0.0 and the
\* single note of the override, whatever the other arguments are (distance,
\* gain, elevation, slope, accessType, subCategory, latitude and risk
\* attributes, None values included).
C2_OverridePriority ==
    (pc = "done" /\ TrailDifficultyRated) =>
        /\ ret.status = "ok"
        /\ LabelName[ret.label] = Upper(args.input_data.trailDifficulty)
        /\ ret.S_km = 0
        /\ ret.notes = <<"use: trailDifficulty">>

\* C2 witness: trailDifficulty = 'HARD' with distance 5 km, gain 100 m, a
\* max elevation of 7000 m, a steep slope, accessType None and risk
\* attributes that would raise further down has returned (HARD, 0.0).
C2_Witness ==
    /\ pc = "done"
    /\ args.input_data.trailDifficulty = "HARD"
    /\ args.distance_km = 500 /\ args.gain_m = 100
    /\ args.max_elev_m = 7000 /\ args.slope_avg = 200
    /\ args.input_data.accessType = Null
    /\ args.input_data.feelsLikeTemp = 0 - 11
    /\ args.input_data.coldDurationHours = None
    /\ ret.status = "ok" /\ ret.label = HARD /\ ret.S_km = 0

\* The call of the end-to-end scenario: distance 10.8 km, gain 720 m, slope
\* 0.067, category ATTRACTION, accessType HIKING and nothing else.
ScenarioCall ==
    Call(InputData(Absent, "ATTRACTION", "HIKING", Absent, AbsentText,
                   AbsentText, Missing, Missing, NoRisk),
         1080, 720, None, 67)

\* C3 as stated: the scenario call applies no correction at all and returns
\* HARD with S_km = 18.0.
C3_ScenarioUncorrected ==
    (pc = "done" /\ args = ScenarioCall) =>
        /\ ret.status = "ok"
        /\ ret.label = HARD
        /\ ret.S_km = 1800
        /\ ret.notes = <<>>

\* C3 (amended): the scenario call has base intensity 18.0, no altitude and
\* no latitude correction, no cap and no slope bump, but the input carries
\* neither an acclimatization flag nor a sleep elevation, so exactly the
\* lack-of-acclimatization correction x1.10 applies: it returns HARD with
\* S_km = 19.8 and that single note.
C3_Scenario ==
    (pc = "done" /\ args = ScenarioCall) =>
        /\ ret.status = "ok"
        /\ ret.path = "computed"
        /\ ret.locals.base_S_km = 1800
        /\ MixedEq(ret.locals.multiplier, MixedOfInt(110000))
        /\ ret.locals.base_label = HARD
        /\ ~ret.locals.steep
        /\ ret.label = HARD
        /\ ret.S_km = 1980
        /\ ret.notes = <<"lack acclimatization: x1.10">>

\* C3 witness: the scenario call has returned 19.8.
C3_Witness ==
    pc = "done" /\ args = ScenarioCall /\ ret.status = "ok" /\ ret.S_km = 1980

\* All four optional corrections were triggered by the call.
AllFourTriggered ==
    /\ NeedsAcclimatizationPenalty(args.input_data)
    /\ HasLongExposure(args.input_data, args.distance_km)
    /\ HasExtremeCold(args.input_data).status = "ok"
    /\ HasExtremeCold(args.input_data).value
    /\ HasHeavyLoad(args.input_data)
InNotes(note) == \E i \in 1..Len(ret.notes) : ret.notes[i] = note

\* C4: whenever the call reaches the cap step, the factor applied to the
\* base intensity is min(altitude multiplier x product of the triggered
\* optional multipliers, 3.0), and the cap note is recorded exactly when
\* the product exceeds 3.0.  With elevation 7000 m and all four optional
\* corrections the factor is exactly 3.0 and the cap note is recorded; with
\* elevation 4000 m and all four it is the uncapped product
\* 1.30 * 1.10 * 1.05^3 = 1.65540375.
C4_MultiplierCap ==
    (pc = "done" /\ ret.status = "ok" /\ ret.path = "computed") =>
        LET elevation_m == ElevationSource(args.input_data, args.max_elev_m)
            product == TotalMultiplier(
                           GetElevationMultiplier(elevation_m),
                           OptionalMultipliers(args.input_data, args.distance_km,
                               HasExtremeCold(args.input_data).value))
            exceeds == product.i > 300000 \/ (product.i = 300000 /\ product.n > 0)
        IN /\ MixedEq(ret.locals.total_multiplier, product)
           /\ exceeds => MixedEq(ret.locals.multiplier, MixedOfInt(300000))
           /\ ~exceeds => MixedEq(ret.locals.multiplier, product)
           /\ exceeds <=> InNotes("total multiplier capped at 3.00")
           /\ LET S == TimesBase(ret.locals.base_S_km, ret.locals.multiplier)
              IN IF IsHighLatitude(Get(args.input_data.latitude))
                 THEN MixedEq(ret.locals.S, MixedMulRat(S, 6, 5))
                 ELSE MixedEq(ret.locals.S, S)
           /\ (elevation_m = 7000 /\ AllFourTriggered) =>
                  /\ MixedEq(ret.locals.multiplier, MixedOfInt(300000))
                  /\ InNotes("total multiplier capped at 3.00")
           /\ (elevation_m = 4000 /\ AllFourTriggered) =>
                  /\ MixedEq(ret.locals.multiplier, MixedNorm(165540, 3, 8))
                  /\ ~InNotes("total multiplier capped at 3.00")

\* C4 witness: a call with elevation 7000 m and all four optional
\* corrections has returned with the factor 3.0 and the cap note.
C4_Witness ==
    /\ pc = "done" /\ ret.status = "ok" /\ ret.path = "computed"
    /\ args.input_data.elevationMeters = 7000
    /\ AllFourTriggered
    /\ MixedGt(ret.locals.total_multiplier, 300000)
    /\ MixedEq(ret.locals.multiplier, MixedOfInt(300000))
    /\ InNotes("total multiplier capped at 3.00")

\* The first call of a resubmitted pair (slope_avg = 0.14) and its answer.
First == calls[1]
Resubmitted ==
    /\ pc = "done" /\ calls # <<>>
    /\ First.args.slope_avg = 140 /\ args.slope_avg = 150
    /\ args = [First.args EXCEPT !.slope_avg = 150]

\* C5 as stated: for any inputs without a trailDifficulty override that
\* answer label L at slope_avg = 0.14, the same inputs at slope_avg = 0.15
\* answer the level one above L (EXTREME stays EXTREME).
C5_BumpForAnyInput ==
    (Resubmitted /\ ~TrailDifficultyRated /\ First.ret.status = "ok") =>
        /\ ret.status = "ok"
        /\ ret.label = OneLevelAbove(First.ret.label)

\* C5 (amended): for inputs without a trailDifficulty override that answer
\* label L at slope_avg = 0.14, the same inputs at slope_avg = 0.15 answer
\* the level one above L (EXTREME stays EXTREME) provided a distance is
\* supplied or inferable, accessType is not VEHICLE/CABLE_CAR, and the
\* subCategory floor does not act (subCategory is not glacier/volcano, or
\* the classification before the bump is above EASY).  In the remaining
\* cases (category fallback, motorized access, the floor lifting EASY) the
\* label at 0.15 equals the label at 0.14; the intensity S_km is the same
\* at both slopes up to the rounding of an exact tie.
C5_SlopeBump ==
    (Resubmitted /\ ~TrailDifficultyRated /\ First.ret.status = "ok") =>
        /\ ret.status = "ok"
        /\ ret.path = First.ret.path
        /\ ret.locals.S = First.ret.locals.S
        /\ IF /\ ret.path = "computed"
              /\ ~AccessMotorized
              /\ ~(SubCategoryFloored /\ First.ret.locals.base_label = EASY)
           THEN /\ ~First.ret.locals.steep /\ ret.locals.steep
                /\ ret.label = OneLevelAbove(First.ret.label)
           ELSE ret.label = First.ret.label

\* C5 witness: a pair of calls where 0.14 answered HARD and 0.15 answered
\* EXTREME.
C5_Witness ==
    /\ Resubmitted /\ ~TrailDifficultyRated
    /\ ~AccessMotorized /\ ~SubCategoryFloored
    /\ First.ret.status = "ok" /\ First.ret.label = HARD
    /\ ret.status = "ok" /\ ret.label = EXTREME

C9_NoErrorStates ==
    pc = "done" => (ret.status = "ok" /\ ret.label \in {EASY, MODERATE, HARD, EXTREME})

\* No duration is resolved: visitDuration is absent, None, empty or matches
\* no rule, and typicalStay is absent, None, empty or not a key of the table.
NoDurationResolved ==
    LET visit_duration == GetText(args.input_data.visitDuration)
        typical_stay == GetText(args.input_data.typicalStay)
    IN /\ (TruthyText(visit_duration) => ParseDuration(visit_duration) = None)
       /\ (TruthyText(typical_stay) => TypicalStayMap(typical_stay) = None)

\* C15: a call without a trailDifficulty override, without distance_km and
\* without a resolvable duration returns S_km = 0.0, the single fallback
\* note, and EASY for the categories RESTAURANT, HOTEL and SHOPPING (matched
\* as the code matches them, after upper()), MODERATE for ATTRACTION, any
\* other category and no category (absent, None, empty); slope, accessType
\* and subCategory do not change that label.
C15_CategoryFallback ==
    (pc = "done" /\ ~TrailDifficultyRated /\ args.distance_km = None
        /\ NoDurationResolved) =>
        LET category == GetStr(args.input_data.category)
        IN /\ ret.status = "ok"
           /\ ret.S_km = 0
           /\ ret.notes = <<"fallback: category default">>
           /\ ret.label = IF /\ TruthyStr(category)
                             /\ Upper(category) \in {"RESTAURANT", "HOTEL", "SHOPPING"}
                          THEN EASY ELSE MODERATE

\* C15 witness: category HOTEL with subCategory glacier, accessType VEHICLE,
\* a steep slope and a visitDuration that matches no rule has returned EASY
\* with the fallback note.
C15_Witness ==
    /\ pc = "done" /\ ~TrailDifficultyRated /\ NoDurationResolved
    /\ args.distance_km = None /\ args.slope_avg = 150
    /\ args.input_data.category = "HOTEL"
    /\ args.input_data.subCategory = "glacier"
    /\ args.input_data.accessType = "VEHICLE"
    /\ args.input_data.visitDuration = << <<"num", 3>>, <<"other", 0>> >>
    /\ ret.status = "ok" /\ ret.label = EASY /\ ret.S_km = 0
    /\ ret.notes = <<"fallback: category default">>

\* The label a returned computed call holds when it reaches the subCategory
\* stage: the classification, one level up when the slope is steep, and
\* EASY when the access is motorized.
LabelBeforeFloor ==
    IF AccessMotorized THEN EASY
    ELSE IF ret.locals.steep THEN OneLevelAbove(ret.locals.base_label)
    ELSE ret.locals.base_label

\* C16: a call that returns from the computed path with subCategory glacier
\* or volcano (any letter case) never returns EASY: a label that is EASY
\* after the slope and accessType stages, also one forced to EASY by
\* accessType VEHICLE/CABLE_CAR, is returned as MODERATE with the
\* subCategory note, and MODERATE, HARD and EXTREME are returned unchanged.
C16_SubCategoryFloor ==
    (pc = "done" /\ ret.status = "ok" /\ ret.path = "computed"
        /\ SubCategoryFloored) =>
        /\ ret.label # EASY
        /\ ret.label = IF LabelBeforeFloor = EASY THEN MODERATE
                       ELSE LabelBeforeFloor
        /\ InNotes("subCategory: at least MODERATE") <=> LabelBeforeFloor = EASY

\* C16 witness: subCategory glacier with accessType VEHICLE, distance 50 km
\* and gain 2000 m: classified EXTREME, forced to EASY by the accessType
\* stage, returned as MODERATE.
C16_Witness ==
    /\ pc = "done" /\ ret.status = "ok" /\ ret.path = "computed"
    /\ args.input_data.subCategory = "glacier"
    /\ args.input_data.accessType = "VEHICLE"
    /\ args.distance_km = 5000 /\ args.gain_m = 2000
    /\ ret.locals.base_label = EXTREME
    /\ InNotes("accessType: vehicle/cable_car")
    /\ InNotes("subCategory: at least MODERATE")
    /\ ret.label = MODERATE

\* The base intensity D + E / 100 of a returned computed call (0.01 km),
\* from its arguments.
BaseOfCall ==
    (IF args.distance_km # None THEN args.distance_km
     ELSE InferDistanceKm(args.input_data).value)
    + (IF args.gain_m # None THEN args.gain_m ELSE 0)
\* The latitude correction applies to the call: |latitude| >= 60.
LatitudeCorrected ==
    LET latitude == Get(args.input_data.latitude)
    IN latitude # None /\ (latitude >= 60 \/ latitude <= 0 - 60)

\* C17: the intensity of a returned computed call is
\* base x min(total multiplier, 3.0), times 1.2 when |latitude| >= 60 and
\* unchanged when the latitude is absent, None or below 60 in absolute
\* value; the returned S_km is that value rounded to 2 decimals, so it is
\* at most 3.0 x base without the latitude correction and at most
\* 3.6 x base (plus the rounding) with it.
C17_LatitudeAfterCap ==
    (pc = "done" /\ ret.status = "ok" /\ ret.path = "computed") =>
        LET total == TotalMultiplier(
                         GetElevationMultiplier(
                             ElevationSource(args.input_data, args.max_elev_m)),
                         OptionalMultipliers(args.input_data, args.distance_km,
                             HasExtremeCold(args.input_data).value))
            factor == IF MixedLeq(total, 300000) THEN total
                      ELSE MixedOfInt(300000)
            capped == TimesBase(BaseOfCall, factor)
            expected == IF LatitudeCorrected THEN MixedMulRat(capped, 6, 5)
                        ELSE capped
        IN /\ MixedEq(ret.locals.S, expected)
           /\ ret.S_km \in {Round2(expected)}
                  \cup (IF IsTie(expected) THEN {Round2(expected) + 1} ELSE {})
           /\ InNotes("high latitude: x1.2") <=> LatitudeCorrected
           /\ ~LatitudeCorrected => ret.S_km <= 3 * BaseOfCall
           /\ LatitudeCorrected => ret.S_km * 10 <= 36 * BaseOfCall + 5

\* C17 witness: latitude 60, elevation 7000 m and all four optional
\* corrections on a base of 18.0: the product is capped at 3.0, then the
\* latitude correction gives S_km = 18.0 x 3.0 x 1.2 = 64.8.
C17_Witness ==
    /\ pc = "done" /\ ret.status = "ok" /\ ret.path = "computed"
    /\ args.input_data.latitude = 60
    /\ args.input_data.elevationMeters = 7000
    /\ AllFourTriggered
    /\ BaseOfCall = 1800
    /\ InNotes("total multiplier capped at 3.00")
    /\ InNotes("high latitude: x1.2")
    /\ ret.S_km = 6480

\* The unrounded intensity of a returned computed call is at most k km.
AtMostKm(k) ==
    \/ ret.locals.S.i < k * 1000000
    \/ (ret.locals.S.i = k * 1000000 /\ ret.locals.S.n = 0)

\* C18: in a returned computed call the label before the slope, accessType
\* and subCategory stages is EASY iff S_km <= 8, MODERATE iff 8 < S_km <= 16,
\* HARD iff 16 < S_km <= 30 and EXTREME iff S_km > 30, for the unrounded
\* corrected S_km; and it is the label returned when none of the three
\* stages acts.
C18_BaseClassification ==
    (pc = "done" /\ ret.status = "ok" /\ ret.path = "computed") =>
        /\ ret.locals.base_label = EASY <=> AtMostKm(8)
        /\ ret.locals.base_label = MODERATE <=> (~AtMostKm(8) /\ AtMostKm(16))
        /\ ret.locals.base_label = HARD <=> (~AtMostKm(16) /\ AtMostKm(30))
        /\ ret.locals.base_label = EXTREME <=> ~AtMostKm(30)
        /\ (~ret.locals.steep /\ ~AccessMotorized /\ ~SubCategoryFloored) =>
               ret.label = ret.locals.base_label

\* C18 witness: 25 km at latitude -60 with no other correction has the
\* intensity 25 x 1.2 = 30.0 exactly and is returned as HARD.
C18_Witness ==
    /\ pc = "done" /\ ret.status = "ok" /\ ret.path = "computed"
    /\ args.distance_km = 2500 /\ args.gain_m = 0
    /\ args.input_data.latitude = 0 - 60
    /\ MixedEq(ret.locals.S, MixedOfInt(30000000))
    /\ ~ret.locals.steep /\ ~AccessMotorized /\ ~SubCategoryFloored
    /\ ret.S_km = 3000 /\ ret.label = HARD

(***************************************************************************)
(* Path resampler: resample_path                                           *)
(*                                                                         *)
(* Routes run along one meridian: a coordinate is <<lat, lon>> with the    *)
(* same lon throughout, and lat counted in arcs of one metre, so that the  *)
(* haversine formula reduces to R * |delta phi| = |lat2 - lat1| metres.    *)
(* The code computes in floats.  Where the exact values decide, the model  *)
(* follows them; where a float rounding error decides, it takes both       *)
(* outcomes:                                                               *)
(*   - `acc + seg_dist >= step_m` with acc + seg_dist = step_m exactly     *)
(*     holds or fails;                                                     *)
(*   - a point interpolated onto the position of a raw coordinate is that  *)
(*     coordinate <<lat, lon>>, or a float next to it, <<lat, lon, 1>>,    *)
(*     which compares unequal to it.                                       *)
(***************************************************************************)

\* Bounds: raw points per route, positions 0..MaxPos and steps 1..MaxStep.
MaxRaw == 3
MaxPos == 4
MaxStep == 3

\* haversine_distance for two points of one meridian, in metres
haversine_distance(lat1, lon1, lat2, lon2) == Abs(lat2 - lat1)

\* A mutant of the interpolation: the distance already accumulated is
\* ignored, t = step_m / seg_dist.
InterpolateFromCarry(carry, next_coord, step_m, acc, seg_dist) ==
    IF seg_dist > 0
    THEN << carry[1] + (step_m * (next_coord[1] - carry[1])) \div seg_dist,
            carry[2] + (step_m * (next_coord[2] - carry[2])) \div seg_dist >>
    ELSE next_coord

\* Lines 424-429: t = (step_m - acc) / seg_dist if seg_dist > 0 else 1.0, and
\* the point carry + t * (next_coord - carry), in exact arithmetic.
Interpolate(carry, next_coord, step_m, acc, seg_dist) ==
    IF seg_dist > 0
    THEN << carry[1] + ((step_m - acc) * (next_coord[1] - carry[1])) \div seg_dist,
            carry[2] + ((step_m - acc) * (next_coord[2] - carry[2])) \div seg_dist >>
    ELSE next_coord

\* The floats the interpolation may produce for the exact point.
InterpolatedFloats(point, seg_dist, coords) ==
    IF seg_dist > 0 /\ \E i \in 1..Len(coords) : coords[i] = point
    THEN {point, <<point[1], point[2], 1>>}
    ELSE {point}

\* The `while acc + seg_dist >= step_m` loop (lines 423-434) and the
\* `acc += seg_dist` after it: the possible values of the resampled list
\* and of acc when it exits.
RECURSIVE WhileLoop(_, _, _, _, _, _)
WhileLoop(resampled, carry, acc, next_coord, step_m, coords) ==
    LET seg_dist == haversine_distance(carry[1], carry[2],
                                       next_coord[1], next_coord[2])
        point == Interpolate(carry, next_coord, step_m, acc, seg_dist)
        iterate == UNION { WhileLoop(Append(resampled, p), p, 0, next_coord,
                                     step_m, coords) :
                           p \in InterpolatedFloats(point, seg_dist, coords) }
        exit == {[resampled |-> resampled, acc |-> acc + seg_dist]}
    IN IF acc + seg_dist > step_m THEN iterate
       ELSE IF acc + seg_dist = step_m THEN iterate \cup exit
       ELSE exit

\* The `for next_coord in coords[1:]` loop (lines 420-437), from coords[k];
\* carry is coords[k - 1] when an iteration starts.
RECURSIVE ForLoop(_, _, _, _, _)
ForLoop(resampled, acc, coords, k, step_m) ==
    IF k > Len(coords) THEN {resampled}
    ELSE UNION { ForLoop(after.resampled, after.acc, coords, k + 1, step_m) :
                 after \in WhileLoop(resampled, coords[k - 1], acc, coords[k],
                                     step_m, coords) }

\* A mutant of the end-point rule: the end point is never appended.
EnsureLastNever(resampled, coords) == resampled

\* Lines 440-441: `if resampled[-1] != coords[-1]: resampled.append(coords[-1])`
EnsureLast(resampled, coords) ==
    IF resampled[Len(resampled)] # coords[Len(coords)]
    THEN Append(resampled, coords[Len(coords)])
    ELSE resampled

\* resample_path(coords, step_m): the lists it may return
resample_path(coords, step_m) ==
    IF Len(coords) < 2 THEN {coords}
    ELSE { EnsureLast(resampled, coords) :
           resampled \in ForLoop(<<coords[1]>>, 0, coords, 2, step_m) }

RawPoints == {<<lat, 0>> : lat \in 0..MaxPos}
RawRoutes == UNION {[1..n -> RawPoints] : n \in 0..MaxRaw}

InitResample ==
    /\ pc = "call"
    /\ args \in [coords : RawRoutes, step_m : 1..MaxStep]
    /\ ret = <<>>
    /\ encoded = NoRet
    /\ calls = <<>>
    /\ frame = <<>>

Resample ==
    /\ pc = "call"
    /\ ret' \in resample_path(args.coords, args.step_m)
    /\ pc' = "done"
    /\ UNCHANGED <<args, encoded, calls, frame>>

NextResample == Resample

SpecResample == InitResample /\ [][NextResample]_vars

\* C8: for every raw sequence of at least 2 points and every positive step
\* the output of resample_path starts with the first raw point and ends
\* with the last raw point, also when the final gap is shorter than the
\* step or the whole route is shorter than one step.
C8_Endpoints ==
    (pc = "done" /\ Len(args.coords) >= 2) =>
        /\ Len(ret) >= 1
        /\ ret[1] = args.coords[1]
        /\ ret[Len(ret)] = args.coords[Len(args.coords)]

\* C8 witness: a route of 3 m resampled every 2 m; the final gap of 1 m is
\* shorter than the step and the end point closes the output.
C8_Witness ==
    /\ pc = "done"
    /\ args.coords = << <<0, 0>>, <<3, 0>> >> /\ args.step_m = 2
    /\ ret = << <<0, 0>>, <<2, 0>>, <<3, 0>> >>

(***************************************************************************)
(* Pipeline: end2end (route -> resample -> elevation -> metrics -> score)  *)
(*                                                                         *)
(* Routes run along one meridian with positions that are multiples of      *)
(* 600 m, and the terrains below have elevations that are multiples of     *)
(* 60 m at those positions, so that distances are whole hundredths of a    *)
(* km and every window mean and gain is a whole number of metres.          *)
(* Elevations are in metres, smoothed elevations and the gain in 1/60 m.   *)
(***************************************************************************)

\* Line 33: HAS_PIL.  The module cannot be imported without PIL (the
\* annotation `Optional[Image.Image]` of download_terrain_tile is evaluated
\* at import), so every run has HAS_PIL = True.
HAS_PIL == TRUE

\* What the route provider may answer.
PipelineRoutes ==
    { <<>>,
      << <<0, 0>> >>,
      << <<600, 0>>, <<600, 0>> >>,
      << <<0, 0>>, <<3000, 0>> >>,
      << <<0, 0>>, <<10800, 0>> >>,
      << <<0, 0>>, <<5400, 0>>, <<10800, 0>> >> }
SampleSteps == {1800, 3600}

\* The ground: elevation in metres at a coordinate.
Terrains == {"sea", "ramp", "steep", "plateau"}
Elevation(terrain, coord) ==
    CASE terrain = "sea" -> 0
      [] terrain = "ramp" -> coord[1] \div 10
      [] terrain = "steep" -> coord[1] \div 5
      [] terrain = "plateau" -> 4200

\* The exceptions the requests may raise.
RouteErrors == {"Timeout", "RouteApiError"}
GoogleElevationErrors == {"Timeout", "RequestException", "ElevationApiError"}
MapboxErrors == {"ValueError", "OSError"}

\* Metre span of one terrain tile along the meridian (a bound of the model).
TileSpan == 6000
TileKey(coord) == coord[1] \div TileSpan

\* What an elevation backend answers: a list of elevations, or an exception.
Elevations(values) == [status |-> "ok", value |-> values, error |-> ""]
ElevationError(e) == [status |-> "raise", value |-> <<>>, error |-> e]

\* sample_elevation_google: one elevation per coordinate, or an exception.
sample_elevation_google(coords) ==
    { ElevationError(e) : e \in GoogleElevationErrors }
    \cup { Elevations([i \in 1..Len(coords) |-> Elevation(terrain, coords[i])]) :
           terrain \in Terrains }

\* What download_terrain_tile returns for a tile: an image, None (the
\* download failed, lines 582-584), or an image object whose pixels cannot
\* be read, so that bilinear_sample raises (Image.open reads the header
\* only; a truncated body raises OSError at getpixel).
TileStates == {"image", "none", "broken"}

\* What the raster-tile backend answers: as Elevations and ElevationError,
\* with the tiles needed and the tiles downloaded (the keys of `tiles`).
TileElevations(values, tiles_needed, tiles) ==
    [status |-> "ok", value |-> values, error |-> "",
     tiles_needed |-> tiles_needed, tiles |-> tiles]
TileError(e, tiles_needed, tiles) ==
    [status |-> "raise", value |-> <<>>, error |-> e,
     tiles_needed |-> tiles_needed, tiles |-> tiles]

\* Lines 664-672: the keys of tiles_needed
TilesNeeded(coords) == {TileKey(coords[i]) : i \in 1..Len(coords)}

\* Lines 679-685: the keys of `tiles` once every future has completed
TilesDownloaded(tiles_needed, download) ==
    {t \in tiles_needed : download[t] # "none"}

\* A mutant of the sampling loop: a coordinate of a failed tile is skipped.
RECURSIVE SampleLoopSkip(_, _, _, _, _)
SampleLoopSkip(coords, i, tiles, terrain, elevations) ==
    IF i > Len(coords) THEN elevations
    ELSE SampleLoopSkip(coords, i + 1, tiles, terrain,
             IF TileKey(coords[i]) \in tiles
             THEN Append(elevations, Elevation(terrain, coords[i]))
             ELSE elevations)

\* Lines 688-696: the sampling loop from coords[i] on; Elevation stands for
\* bilinear_sample of the tile's image.
RECURSIVE SampleLoop(_, _, _, _, _)
SampleLoop(coords, i, tiles, terrain, elevations) ==
    IF i > Len(coords) THEN elevations
    ELSE SampleLoop(coords, i + 1, tiles, terrain,
             IF TileKey(coords[i]) \in tiles
             THEN Append(elevations, Elevation(terrain, coords[i]))
             ELSE Append(elevations, 0))

\* sample_elevation_mapbox(access_token, coords, z, workers) when
\* download_terrain_tile answers download[t] for tile t and the ground is
\* terrain: the call raises when PIL is missing (line 661), when the thread
\* pool refuses max_workers <= 0 (line 680) and when a tile's pixels cannot
\* be read (line 691); a tile that failed to download gives 0.0 (lines
\* 693-695).
MapboxOutcome(coords, workers, download, terrain) ==
    IF ~HAS_PIL THEN TileError("ImportError", {}, {})
    ELSE IF workers <= 0 THEN TileError("ValueError", TilesNeeded(coords), {})
    ELSE LET tiles_needed == TilesNeeded(coords)
             tiles == TilesDownloaded(tiles_needed, download)
         IN IF \E t \in tiles_needed : download[t] = "broken"
            THEN TileError("OSError", tiles_needed, tiles)
            ELSE TileElevations(SampleLoop(coords, 1, tiles, terrain, <<>>),
                                tiles_needed, tiles)

\* sample_elevation_mapbox: what the call may answer, over every answer of
\* the tile server.
sample_elevation_mapbox(coords, workers) ==
    { MapboxOutcome(coords, workers, download, terrain) :
      download \in [TilesNeeded(coords) -> TileStates], terrain \in Terrains }

\* moving_average(values, win=5), in 1/60 m: the window of i is
\* [max(0, i - 2), min(n, i + 3)) in 0-based indices.
RECURSIVE SumOf(_, _, _)
SumOf(values, from, to) ==
    IF from > to THEN 0 ELSE values[from] + SumOf(values, from + 1, to)
\* A mutant of moving_average: the window does not shrink at the
\* boundaries (the samples outside the series count as 0).
MovingAverageZeroPadded(values) ==
    IF Len(values) < 5 THEN [i \in 1..Len(values) |-> values[i] * 60]
    ELSE [i \in 1..Len(values) |->
             (SumOf(values, Max(1, i - 2), Min(Len(values), i + 2)) * 60) \div 5]

moving_average(values) ==
    IF Len(values) < 5 THEN [i \in 1..Len(values) |-> values[i] * 60]
    ELSE [i \in 1..Len(values) |->
             LET start == Max(1, i - 2)
                 end == Min(Len(values), i + 2)
             IN (SumOf(values, start, end) * 60) \div (end - start + 1)]

\* Lines 754-757: the sum of the rises above 3.0 m, in 1/60 m, over the
\* pairs (i, i + 1) for i in from..to (summed by halves).
RECURSIVE GainFrom(_, _, _)
GainFrom(elev_smoothed, from, to) ==
    IF from > to THEN 0
    ELSE IF from = to
    THEN LET diff == elev_smoothed[from + 1] - elev_smoothed[from]
         IN IF diff > 3 * 60 THEN diff ELSE 0
    ELSE LET mid == (from + to) \div 2
         IN GainFrom(elev_smoothed, from, mid)
            + GainFrom(elev_smoothed, mid + 1, to)

\* Lines 741-746: the length of the raw route, in m, over the segments
\* (i, i + 1) for i in from..to (summed by halves).
RECURSIVE DistanceFrom(_, _, _)
DistanceFrom(coords_raw, from, to) ==
    IF from > to THEN 0
    ELSE IF from = to
    THEN haversine_distance(coords_raw[from][1], coords_raw[from][2],
                            coords_raw[from + 1][1], coords_raw[from + 1][2])
    ELSE LET mid == (from + to) \div 2
         IN DistanceFrom(coords_raw, from, mid)
            + DistanceFrom(coords_raw, mid + 1, to)

\* The smoothed values are floats.  A value that is k / 4 m is exact; a mean
\* over 3 or 5 samples in general is not, and the float difference of two
\* values whose exact difference is 3.0 m is then 3.0 or a float next to it
\* (6.4 - 3.4 gives 3.0000000000000004): `diff > 3.0` goes either way.
\* TiePairs are those pairs (i, i + 1).
TiePairs(elev_smoothed) ==
    { i \in 1..(Len(elev_smoothed) - 1) :
        /\ elev_smoothed[i + 1] - elev_smoothed[i] = 3 * 60
        /\ ~(elev_smoothed[i] % 15 = 0 /\ elev_smoothed[i + 1] % 15 = 0) }

\* Lines 753-757: the values gain_m may have after the loop, in 1/60 m.
GainOutcomes(elev_smoothed) ==
    { GainFrom(elev_smoothed, 1, Len(elev_smoothed) - 1) + 3 * 60 * k :
        k \in 0..Cardinality(TiePairs(elev_smoothed)) }

\* calc_metrics: distance in m, gain in 1/60 m; slope_avg is
\* gain_m / distance_m, or 0.0 when the distance is 0.  The set of the
\* results the floats allow.
calc_metrics(coords_raw, coords_resampled, elevations) ==
    { [distance_m |-> DistanceFrom(coords_raw, 1, Len(coords_raw) - 1),
       gain |-> gain] : gain \in GainOutcomes(moving_average(elevations)) }

\* max(values) of a non-empty list
MaxOf(values) ==
    CHOOSE v \in {values[i] : i \in 1..Len(values)} :
        \A i \in 1..Len(values) : values[i] <= v

\* round(): the nearest integer to num / den; a float at an exact tie
\* rounds either way.
RoundOutcomes(num, den) ==
    LET q == num \div den
        r == num % den
    IN IF 2 * r > den THEN {q + 1}
       ELSE IF 2 * r = den THEN {q, q + 1}
       ELSE {q}

\* make_geojson: whether the LineString feature is present and the number
\* of elevation Point features.
make_geojson(coords, elevations) ==
    [none |-> FALSE, line |-> Len(coords) >= 2,
     points |-> IF Len(coords) = Len(elevations) THEN Len(coords) ELSE 0]
NoGeojson == [none |-> TRUE, line |-> FALSE, points |-> 0]

\* What end2end returns: the result dictionary (distance_km in m,
\* elevation_gain_m in 0.1 m, slope_avg in 1e-4, S_km in 0.01 km), or an
\* exception.
Result(distance_km, elevation_gain_m, slope_avg, label, S_km, notes, geojson) ==
    [status |-> "ok", error |-> "", distance_km |-> distance_km,
     elevation_gain_m |-> elevation_gain_m, slope_avg |-> slope_avg,
     label |-> label, S_km |-> S_km, notes |-> notes, geojson |-> geojson]
Failure(e) ==
    [status |-> "raise", error |-> e, distance_km |-> 0,
     elevation_gain_m |-> 0, slope_avg |-> 0, label |-> "", S_km |-> 0,
     notes |-> <<>>, geojson |-> NoGeojson]
\* A mutant of the short-route result: the official rating of the metadata
\* is honoured.
ShortResultRated ==
    Result(0, 0, 0, "HARD", 0, <<"use: trailDifficulty">>, NoGeojson)

\* Lines 809-819
ShortResult == Result(0, 0, 0, "EASY", 0, <<"short segment">>, NoGeojson)

\* The locals of end2end: e is the exception caught at line 827 and e2 the
\* one caught at line 835 ("" when none); source names the backend whose
\* answer elevations holds.
NoFrame ==
    [coords_raw |-> <<>>, coords |-> <<>>, elevations |-> <<>>,
     e |-> "", e2 |-> "", source |-> "", tiles_needed |-> {}, tiles |-> {},
     metrics |-> [distance_m |-> 0, gain |-> 0]]

\* meta as main() builds it (lines 1056-1070): only the options given on
\* the command line, hence no None value and no risk attribute.
Metas ==
    { InputData(td, "ATTRACTION", acc, Absent, AbsentText, AbsentText, elev,
                Missing, NoRisk) :
      td \in {Absent, "HARD"}, acc \in {"HIKING", "VEHICLE"},
      elev \in {Missing, 2300} }

\* --workers: the default and a value the thread pool refuses
PoolSizes == {0, 8}

\* The arguments of end2end and the environment variable
\* MAPBOX_ACCESS_TOKEN (Null when unset).  With provider mapbox main()
\* requires the variable and passes it as api_key_or_token.
PipelineArgs ==
    { a \in [provider : {"google", "mapbox"}, sample_m : SampleSteps,
             meta : Metas, MAPBOX_ACCESS_TOKEN : {Null, "", "pk.token"},
             workers : PoolSizes] :
        a.provider = "mapbox" => a.MAPBOX_ACCESS_TOKEN = "pk.token" }

InitPipeline ==
    /\ pc = "route"
    /\ args \in PipelineArgs
    /\ ret = Failure("")
    /\ encoded = NoRet
    /\ calls = <<>>
    /\ frame = NoFrame

\* Lines 798-819: the route request and the short-route return.
GetRoute ==
    /\ pc = "route"
    /\ calls' = Append(calls, IF args.provider = "google"
                              THEN "get_route_google" ELSE "get_route_mapbox")
    /\ \/ \E e \in RouteErrors :
             /\ pc' = "raised" /\ ret' = Failure(e) /\ frame' = frame
       \/ \E coords_raw \in PipelineRoutes :
             IF Len(coords_raw) < 2
             THEN /\ pc' = "done" /\ ret' = ShortResult
                  /\ frame' = [frame EXCEPT !.coords_raw = coords_raw]
             ELSE /\ pc' = "resample" /\ ret' = ret
                  /\ frame' = [frame EXCEPT !.coords_raw = coords_raw]
    /\ UNCHANGED <<args, encoded>>

\* Line 822
ResampleRoute ==
    /\ pc = "resample"
    /\ \E coords \in resample_path(frame.coords_raw, args.sample_m) :
           frame' = [frame EXCEPT !.coords = coords]
    /\ pc' = "elevation"
    /\ UNCHANGED <<args, ret, encoded, calls>>

\* Lines 825-827: the path-sampling request of provider google
SampleElevationGoogle ==
    /\ pc = "elevation" /\ args.provider = "google"
    /\ calls' = Append(calls, "sample_elevation_google")
    /\ \E outcome \in sample_elevation_google(frame.coords) :
           IF outcome.status = "ok"
           THEN /\ frame' = [frame EXCEPT !.elevations = outcome.value,
                                          !.source = "google"]
                /\ pc' = "metrics"
           ELSE /\ frame' = [frame EXCEPT !.e = outcome.error]
                /\ pc' = "except"
    /\ UNCHANGED <<args, ret, encoded>>

\* Line 830: `if mapbox_token and HAS_PIL`
FallbackAvailable(mapbox_token) == TruthyStr(mapbox_token) /\ HAS_PIL

\* Lines 828-839: the handler of a failed path-sampling request
HandleGoogleFailure ==
    /\ pc = "except"
    /\ IF FallbackAvailable(args.MAPBOX_ACCESS_TOKEN)
       THEN pc' = "fallback" /\ ret' = ret
       ELSE pc' = "raised" /\ ret' = Failure(frame.e)
    /\ UNCHANGED <<args, encoded, calls, frame>>

\* A mutant of line 837: the failure of the fallback is raised.
PropagatedErrorSecondary(e, e2) == e2

\* Line 837: `raise e`
PropagatedError(e, e2) == e

\* Lines 833-837: the raster-tile backend as fallback
SampleElevationFallback ==
    /\ pc = "fallback"
    /\ calls' = Append(calls, "sample_elevation_mapbox")
    /\ \E outcome \in sample_elevation_mapbox(frame.coords, args.workers) :
           IF outcome.status = "ok"
           THEN /\ frame' = [frame EXCEPT !.elevations = outcome.value,
                                          !.source = "mapbox",
                                          !.tiles_needed = outcome.tiles_needed,
                                          !.tiles = outcome.tiles]
                /\ pc' = "metrics" /\ ret' = ret
           ELSE /\ frame' = [frame EXCEPT !.e2 = outcome.error,
                                          !.tiles_needed = outcome.tiles_needed,
                                          !.tiles = outcome.tiles]
                /\ pc' = "raised"
                /\ ret' = Failure(PropagatedError(frame.e, outcome.error))
    /\ UNCHANGED <<args, encoded>>

\* Lines 840-841: the raster-tile backend of provider mapbox
SampleElevationMapbox ==
    /\ pc = "elevation" /\ args.provider = "mapbox"
    /\ calls' = Append(calls, "sample_elevation_mapbox")
    /\ \E outcome \in sample_elevation_mapbox(frame.coords, args.workers) :
           IF outcome.status = "ok"
           THEN /\ frame' = [frame EXCEPT !.elevations = outcome.value,
                                          !.source = "mapbox",
                                          !.tiles_needed = outcome.tiles_needed,
                                          !.tiles = outcome.tiles]
                /\ pc' = "metrics" /\ ret' = ret
           ELSE /\ frame' = [frame EXCEPT !.tiles_needed = outcome.tiles_needed,
                                          !.tiles = outcome.tiles]
                /\ pc' = "raised" /\ ret' = Failure(outcome.error)
    /\ UNCHANGED <<args, encoded>>

\* Line 850
CalcMetrics ==
    /\ pc = "metrics"
    /\ \E metrics \in calc_metrics(frame.coords_raw, frame.coords,
                                    frame.elevations) :
          frame' = [frame EXCEPT !.metrics = metrics]
    /\ pc' = "score"
    /\ UNCHANGED <<args, ret, encoded, calls>>

\* Lines 853-860: the call of the scoring engine, with the distance in
\* 0.01 km, the gain in m and the slope in 1/1000 (rounded down, which
\* leaves the test against 0.15 as it is).
ScoreCall ==
    LET distance_m == frame.metrics.distance_m
        gain == frame.metrics.gain
    IN Call(args.meta, distance_m \div 10, gain \div 60,
            IF frame.elevations # <<>> THEN MaxOf(frame.elevations)
            ELSE Get(args.meta.elevationMeters),
            IF distance_m > 0 THEN (gain * 50) \div (3 * distance_m) ELSE 0)

\* Lines 853-875: score, build the GeoJSON and return
Score ==
    /\ pc = "score"
    /\ calls' = Append(calls, "estimate_difficulty")
    /\ \E call \in {ScoreCall} :
       \E r \in RoundingOutcomes(
                    EstimateDifficulty(call.input_data, call.distance_km,
                                       call.gain_m, call.max_elev_m,
                                       call.slope_avg)) :
           IF r.status = "raise"
           THEN pc' = "raised" /\ ret' = Failure(r.error)
           ELSE /\ pc' = "done"
                /\ \E g \in RoundOutcomes(frame.metrics.gain, 6),
                      sl \in (IF frame.metrics.distance_m > 0
                              THEN RoundOutcomes(frame.metrics.gain * 500,
                                                 3 * frame.metrics.distance_m)
                              ELSE {0}) :
                      ret' = Result(frame.metrics.distance_m, g, sl,
                                    LabelName[r.label], r.S_km, r.notes,
                                    make_geojson(frame.coords, frame.elevations))
    /\ UNCHANGED <<args, encoded, frame>>

NextPipeline ==
    \/ GetRoute
    \/ ResampleRoute
    \/ SampleElevationGoogle
    \/ HandleGoogleFailure
    \/ SampleElevationFallback
    \/ SampleElevationMapbox
    \/ CalcMetrics
    \/ Score

SpecPipeline == InitPipeline /\ [][NextPipeline]_vars

\* How often a backend was invoked, and whether the secondary credentials
\* are configured.
Invocations(name) == Cardinality({i \in 1..Len(calls) : calls[i] = name})
SecondaryConfigured == TruthyStr(args.MAPBOX_ACCESS_TOKEN)

ElevationExhausted ==
    /\ Invocations("sample_elevation_mapbox") = 1
    /\ frame.tiles_needed # {} /\ frame.tiles = {}

\* C11: when every configured elevation backend has failed, end2end ends
\* with an error and returns no result.
C11_ExhaustedFallback ==
    (ElevationExhausted /\ pc \in {"done", "raised"}) =>
        (pc = "raised" /\ ret.status = "raise")

(***************************************************************************)
(* Raster-tile backend: sample_elevation_mapbox on its own, for coordinate *)
(* lists in any order over three tiles.                                    *)
(***************************************************************************)

\* Bound: coordinates per list.
MaxTileCoords == 3
TilePositions == {0, 3000, 6000, 9000, 12000}
AllTiles == {TileKey(<<lat, 0>>) : lat \in TilePositions}
TileCoordLists ==
    UNION {[1..n -> {<<lat, 0>> : lat \in TilePositions}] : n \in 0..MaxTileCoords}

InitMapbox ==
    /\ pc = "call"
    /\ args \in [coords : TileCoordLists, workers : PoolSizes,
                 download : [AllTiles -> TileStates], terrain : {"ramp", "plateau"}]
    /\ ret = TileError("", {}, {})
    /\ encoded = NoRet
    /\ calls = <<>>
    /\ frame = <<>>

SampleMapbox ==
    /\ pc = "call"
    /\ ret' = MapboxOutcome(args.coords, args.workers, args.download, args.terrain)
    /\ pc' = "done"
    /\ UNCHANGED <<args, encoded, calls, frame>>

NextMapbox == SampleMapbox

SpecMapbox == InitMapbox /\ [][NextMapbox]_vars

\* C12: for every coordinate list and every subset of tiles whose download
\* fails (the other tiles being readable images, and the pool size
\* positive), sample_elevation_mapbox returns without raising a list with
\* exactly one elevation per coordinate, in input order: 0.0 for a
\* coordinate of a failed tile and the value sampled from its tile for any
\* other.
C12_IndexAlignment ==
    (/\ pc = "done" /\ args.workers > 0
     /\ \A t \in TilesNeeded(args.coords) : args.download[t] # "broken") =>
        /\ ret.status = "ok"
        /\ Len(ret.value) = Len(args.coords)
        /\ \A i \in 1..Len(args.coords) :
               ret.value[i] =
                   IF args.download[TileKey(args.coords[i])] = "none" THEN 0
                   ELSE Elevation(args.terrain, args.coords[i])

\* C12 witness: three coordinates in the tiles 1, 0, 1 where tile 1 failed
\* to download: the elevations are 0.0, the sampled value, 0.0.
C12_Witness ==
    /\ pc = "done" /\ args.workers > 0
    /\ args.coords = << <<6000, 0>>, <<3000, 0>>, <<9000, 0>> >>
    /\ args.terrain = "ramp"
    /\ args.download[TileKey(<<6000, 0>>)] = "none"
    /\ args.download[TileKey(<<3000, 0>>)] = "image"
    /\ ret.status = "ok" /\ ret.value = <<0, 300, 0>>

(***************************************************************************)
(* Provider requests: the retry loops of get_route_google,                 *)
(* get_route_mapbox and sample_elevation_google.                           *)
(*                                                                         *)
(* args is the function called, calls the answers of the provider to the   *)
(* requests made so far, frame the loop variable `attempt` and the         *)
(* seconds slept before each retry.                                        *)
(***************************************************************************)

RequestFunctions == {"get_route_google", "get_route_mapbox", "sample_elevation_google"}

\* Lines 177, 316, 454: max_retries = 2 (end2end passes no other value)
max_retries == 2

\* What a request may meet: a network timeout, a connection failure, an
\* HTTP 401/403 (authorization failure) or 503 response, a 200 response
\* whose body carries a provider error status, a 200 response without the
\* expected fields, or a good answer.
Answers == {"Timeout", "ConnectionError", "HTTP401", "HTTP503", "BodyError",
            "Malformed", "OK"}
NonTransient == {"HTTP401", "BodyError"}
Transient == {"Timeout", "ConnectionError"}

\* The class of the exception the try block raises for an answer ("" when
\* it returns).  get_route_google tests response.status_code itself and
\* raises a plain Exception (lines 255-261); the other two call
\* response.raise_for_status() (lines 363, 482), whose HTTPError is a
\* requests.exceptions.RequestException.
ExceptionRaised(fn, answer) ==
    CASE answer = "OK" -> ""
      [] answer = "Timeout" -> "Timeout"
      [] answer = "ConnectionError" -> "RequestException"
      [] answer \in {"HTTP401", "HTTP503"} ->
             IF fn = "get_route_google" THEN "Exception" ELSE "RequestException"
      [] answer = "BodyError" -> "Exception"
      [] answer = "Malformed" -> "Exception"

\* Lines 296-307, 380-391, 507-518: the except clauses that may `continue`
HandlerRetries(fn, answer) ==
    ExceptionRaised(fn, answer) \in {"Timeout", "RequestException"}

\* A mutant of `if attempt < max_retries`: the last attempt continues too.
ShouldRetryAlways(attempt) == attempt <= max_retries

\* `if attempt < max_retries`
ShouldRetry(attempt) == attempt < max_retries

RequestResult(status, error) == [status |-> status, error |-> error]
NoRequestFrame == [attempt |-> 0, slept |-> <<>>]

InitRetry ==
    /\ pc = "attempt"
    /\ args \in RequestFunctions
    /\ ret = RequestResult("", "")
    /\ encoded = NoRet
    /\ calls = <<>>
    /\ frame = NoRequestFrame

\* One iteration of `for attempt in range(max_retries + 1)`: the request,
\* and the return, the retry after time.sleep(2 ** attempt), or the raise.
\* A loop that runs out of attempts falls off the end of the function,
\* which returns None.
Attempt ==
    /\ pc = "attempt"
    /\ \E answer \in Answers :
          /\ calls' = Append(calls, answer)
          /\ IF ExceptionRaised(args, answer) = ""
             THEN /\ pc' = "returned" /\ ret' = RequestResult("ok", "")
                  /\ frame' = frame
             ELSE IF HandlerRetries(args, answer) /\ ShouldRetry(frame.attempt)
             THEN /\ frame' = [attempt |-> frame.attempt + 1,
                               slept |-> Append(frame.slept, 2 ^ frame.attempt)]
                  /\ IF frame.attempt + 1 <= max_retries
                     THEN pc' = "attempt" /\ ret' = ret
                     ELSE pc' = "returned" /\ ret' = RequestResult("none", "")
             ELSE /\ pc' = "raised" /\ ret' = RequestResult("raise", answer)
                  /\ frame' = frame
    /\ UNCHANGED <<args, encoded>>

NextRetry == Attempt

\* The loop body is sequential code: an iteration that can run does run.
SpecRetry == InitRetry /\ [][NextRetry]_vars /\ WF_vars(NextRetry)

\* C13: a non-transient API error (an authorization failure HTTP 401/403,
\* a provider error status in the body) is never retried: it is the answer
\* to the only request made and the call raises it; only timeouts and
\* transient failures are followed by another attempt.
C13_NoRetryOfApiErrors ==
    /\ \A i \in 1..Len(calls) :
           calls[i] \in NonTransient =>
               /\ i = 1 /\ Len(calls) = 1
               /\ pc = "raised" /\ ret.error = calls[i]
    /\ \A i \in 1..(Len(calls) - 1) : calls[i] \in Transient \cup {"HTTP503"}

\* C14: each call makes at most 3 requests; a good answer to any of them
\* returns at once with no further request; a third transient failure is
\* raised to the caller; and the call always terminates.
C14_RetryInvariant ==
    /\ Len(calls) <= max_retries + 1
    /\ frame.attempt <= max_retries
    /\ \A i \in 1..Len(calls) :
           calls[i] = "OK" => (i = Len(calls) /\ pc = "returned" /\ ret.status = "ok")
    /\ pc = "returned" => (ret.status = "ok" /\ calls[Len(calls)] = "OK")
    /\ (Len(calls) = max_retries + 1 /\ calls[Len(calls)] \in Transient) =>
           (pc = "raised" /\ ret.status = "raise"
               /\ ret.error = calls[Len(calls)])
    /\ pc = "attempt" => Len(calls) = frame.attempt
C14_BoundedRetry ==
    [](C14_RetryInvariant) /\ <>(pc \in {"returned", "raised"})

\* C14 witness: two timeouts and a connection failure; the third failure
\* was raised after backoffs of 1 s and 2 s.
C14_Witness ==
    /\ pc = "raised"
    /\ calls = <<"Timeout", "Timeout", "ConnectionError">>
    /\ frame.slept = <<1, 2>>
    /\ ret.status = "raise" /\ ret.error = "ConnectionError"

(***************************************************************************)
(* Distance inference: DifficultyEstimator._infer_distance_km              *)
(***************************************************************************)

InferCategories ==
    {Absent, Null, "", "ATTRACTION", "RESTAURANT", "HOTEL", "hotel",
     "SHOPPING", "PARK"}
InferAccessTypes ==
    {Absent, Null, "", "WALKING", "HIKING", "VEHICLE", "vehicle", "CABLE_CAR",
     "BOAT"}

\* The attributes _infer_distance_km reads from input_data.
InitInfer ==
    /\ pc = "call"
    /\ args \in [category : InferCategories, accessType : InferAccessTypes,
                  visitDuration : DurationTexts, typicalStay : StayTexts]
    /\ ret = Raise("")
    /\ encoded = NoRet
    /\ calls = <<>>
    /\ frame = <<>>

Infer ==
    /\ pc = "call"
    /\ ret' = InferDistanceKm(args)
    /\ pc' = "done"
    /\ UNCHANGED <<args, encoded, calls, frame>>

NextInfer == Infer

SpecInfer == InitInfer /\ [][NextInfer]_vars

\* The pace the claim names for the call, in 0.1 km/h.
ClaimedPace ==
    LET access == Upper(GetStrOr(args.accessType, ""))
        category == Upper(GetStrOr(args.category, ""))
    IN CASE access = "WALKING" -> 40
         [] access = "HIKING" -> 35
         [] access = "VEHICLE" -> 300
         [] access = "CABLE_CAR" -> 50
         [] OTHER -> CASE category = "ATTRACTION" -> 30
                       [] category = "RESTAURANT" -> 5
                       [] category = "HOTEL" -> 0
                       [] OTHER -> 35
\* The ceiling the claim names for the call, in 0.01 km.
ClaimedCeiling ==
    IF Upper(GetStrOr(args.category, "")) \in {"RESTAURANT", "HOTEL"}
    THEN 300 ELSE 1500

\* C19: a call of _infer_distance_km that resolves a duration of h hours
\* (accessType and category absent or a text) returns
\* max(0.2, min(h x pace, ceiling)): pace 4.0/3.5/30.0/5.0 for accessType
\* WALKING/HIKING/VEHICLE/CABLE_CAR, else by category (ATTRACTION 3.0,
\* RESTAURANT 0.5, HOTEL 0.0, else 3.5); ceiling 3.0 km for RESTAURANT and
\* HOTEL and 15.0 km otherwise.  So the result lies in [0.2, 15.0] km, and
\* in [0.2, 3.0] km for RESTAURANT and HOTEL.
C19_DistanceInference ==
    (pc = "done" /\ ResolveHours(args) # None
        /\ args.accessType # Null /\ args.category # Null) =>
        LET minutes == ResolveHours(args)
            product == (minutes * ClaimedPace) \div 6
            limited == IF product <= ClaimedCeiling THEN product
                       ELSE ClaimedCeiling
        IN /\ ret.status = "ok"
           /\ ret.value = IF limited >= 20 THEN limited ELSE 20
           /\ ret.value >= 20 /\ ret.value <= 1500
           /\ Upper(GetStrOr(args.category, "")) \in {"RESTAURANT", "HOTEL"}
                  => ret.value <= 300

\* C19 witness: category ATTRACTION (3.0 km/h) with accessType WALKING
\* (4.0 km/h) and a visitDuration of 2 h: the accessType pace is used and
\* the distance is 8.0 km.
C19_Witness ==
    /\ pc = "done"
    /\ args.category = "ATTRACTION" /\ args.accessType = "WALKING"
    /\ args.visitDuration = Text2h
    /\ ret.status = "ok" /\ ret.value = 800

(***************************************************************************)
(* Duration resolution: _parse_duration and the typicalStay table          *)
(***************************************************************************)

\* Bound: a visitDuration text has at most MaxTokens tokens.
MaxTokens == 3

Tokens ==
    { <<"half_day", 0>>, <<"full_day", 0>>, <<"full_day", 1>>, <<"num", 1>>,
      <<"num", 2>>, <<"hour", 0>>, <<"day", 0>>, <<"minute", 0>>,
      <<"space", 0>>, <<"other", 0>> }

\* The texts of at most MaxTokens tokens; two numbers in a row are one
\* number, so no text has them.
Texts ==
    { t \in UNION { [1..n -> Tokens] : n \in 0..MaxTokens } :
        \A i \in 1..(Len(t) - 1) : ~(t[i][1] = "num" /\ t[i + 1][1] = "num") }

NoDurationFrame == [hours |-> None, typical_stay_consulted |-> FALSE]

InitDuration ==
    /\ pc = "call"
    /\ args \in [visitDuration : Texts \cup {AbsentText, NullText},
                  typicalStay : StayTexts]
    /\ ret = None
    /\ encoded = NoRet
    /\ calls = <<>>
    /\ frame = NoDurationFrame

\* Lines 244-262 of _infer_distance_km: hours is resolved.
ResolveDuration ==
    /\ pc = "call"
    /\ frame' = [hours |-> ParsedVisitDuration(args),
                 typical_stay_consulted |-> TypicalStayConsulted(args)]
    /\ ret' = ResolveHours(args)
    /\ pc' = "done"
    /\ UNCHANGED <<args, encoded, calls>>

NextDuration == ResolveDuration

SpecDuration == InitDuration /\ [][NextDuration]_vars

\* The number (times 60 / 480 / 1) of the leftmost number that is followed
\* by the unit in the visitDuration of the call.
LeftmostNumber(unit) ==
    LET text == args.visitDuration
        at == NumberBeforeUnit(text, unit)
    IN text[CHOOSE i \in at : \A j \in at : i <= j][2]
Matches(unit) == NumberBeforeUnit(args.visitDuration, unit) # {}
Contains(kind) == HasToken(args.visitDuration, kind)

MaxFanCoords == 2

\* Two coordinates of tile 0 and one of tile 1.
FanPositions == {0, 3000, 6000}
FanTiles == {TileKey(<<lat, 0>>) : lat \in FanPositions}
FanCoordLists ==
    UNION {[1..n -> {<<lat, 0>> : lat \in FanPositions}] : n \in 0..MaxFanCoords}
WorkerCounts == {0, 1, 2}

\* The locals of the call: the keys of tiles_needed, the futures by state
\* (submitted and waiting for a worker, running in a worker, finished and
\* not yet yielded by as_completed), the keys of tiles, the number of
\* requests.get made for each tile, the elevations list and the index of
\* the sampling loop.
FanFrame(tiles_needed, queued, running, finished, tiles, requests, elevations, i) ==
    [tiles_needed |-> tiles_needed, queued |-> queued, running |-> running,
     finished |-> finished, tiles |-> tiles, requests |-> requests,
     elevations |-> elevations, i |-> i]
NoFanFrame == FanFrame({}, {}, {}, {}, {}, [t \in FanTiles |-> 0], <<>>, 0)

InitFanIn ==
    /\ pc = "call"
    /\ args \in [coords : FanCoordLists, workers : WorkerCounts,
                  download : [FanTiles -> TileStates], terrain : {"ramp"}]
    /\ ret = TileError("", {}, {})
    /\ encoded = NoRet
    /\ calls = <<>>
    /\ frame = NoFanFrame

\* Lines 661-681: the HAS_PIL test, tiles_needed, the pool and one
\* executor.submit per key of tiles_needed.
Dispatch ==
    /\ pc = "call"
    /\ IF ~HAS_PIL
       THEN /\ pc' = "raised" /\ ret' = TileError("ImportError", {}, {})
            /\ frame' = frame
       ELSE IF args.workers <= 0
       THEN /\ pc' = "raised"
            /\ ret' = TileError("ValueError", TilesNeeded(args.coords), {})
            /\ frame' = [frame EXCEPT !.tiles_needed = TilesNeeded(args.coords)]
       ELSE /\ pc' = "pool" /\ ret' = ret
            /\ frame' = [frame EXCEPT !.tiles_needed = TilesNeeded(args.coords),
                                      !.queued = TilesNeeded(args.coords)]
    /\ UNCHANGED <<args, encoded, calls>>

\* A mutant of download_terrain_tile: a failed request is made once more.
RequestsPerDownloadRetry(outcome) == IF outcome = "none" THEN 2 ELSE 1

\* Lines 575-584 of download_terrain_tile: one requests.get, no loop
RequestsPerDownload(outcome) == 1

\* A free worker thread takes a submitted task and calls
\* download_terrain_tile.
StartDownload(t) ==
    /\ pc = "pool"
    /\ t \in frame.queued
    /\ Cardinality(frame.running) < args.workers
    /\ frame' = [frame EXCEPT !.queued = @ \ {t}, !.running = @ \cup {t},
                              !.requests[t] = @ + RequestsPerDownload(args.download[t])]
    /\ UNCHANGED <<pc, args, ret, encoded, calls>>

\* download_tile returns (tile_key, img or None): the future is done.
FinishDownload(t) ==
    /\ pc = "pool"
    /\ t \in frame.running
    /\ frame' = [frame EXCEPT !.running = @ \ {t}, !.finished = @ \cup {t}]
    /\ UNCHANGED <<pc, args, ret, encoded, calls>>

\* Lines 682-685: as_completed yields a done future; the main thread
\* stores its image under its key when there is one.  calls logs the order.
Collect(t) ==
    /\ pc = "pool"
    /\ t \in frame.finished
    /\ frame' = [frame EXCEPT !.finished = @ \ {t},
                              !.tiles = IF args.download[t] # "none"
                                        THEN @ \cup {t} ELSE @]
    /\ calls' = Append(calls, t)
    /\ UNCHANGED <<pc, args, ret, encoded>>

\* A mutant of the fan-in: the main thread goes on as soon as no task is
\* waiting for a worker.
PoolDrainedEarly(f) == f.queued = {}

\* Lines 680-685: the as_completed loop has seen every future and the
\* with block has shut the pool down.
PoolDrained(f) == f.queued = {} /\ f.running = {} /\ f.finished = {}

ExitPool ==
    /\ pc = "pool"
    /\ PoolDrained(frame)
    /\ pc' = "sampling"
    /\ frame' = [frame EXCEPT !.i = 1]
    /\ UNCHANGED <<args, ret, encoded, calls>>

\* Lines 689-696: one iteration of the sampling loop.
SampleCoordinate ==
    /\ pc = "sampling"
    /\ frame.i <= Len(args.coords)
    /\ LET coord == args.coords[frame.i]
           tile_key == TileKey(coord)
       IN IF tile_key \in frame.tiles /\ args.download[tile_key] = "broken"
          THEN /\ pc' = "raised"
               /\ ret' = TileError("OSError", frame.tiles_needed, frame.tiles)
               /\ frame' = frame
          ELSE /\ pc' = pc /\ ret' = ret
               /\ frame' = [frame EXCEPT
                      !.i = @ + 1,
                      !.elevations =
                          Append(@, IF tile_key \in frame.tiles
                                    THEN Elevation(args.terrain, coord) ELSE 0)]
    /\ UNCHANGED <<args, encoded, calls>>

\* Line 698
ReturnElevations ==
    /\ pc = "sampling"
    /\ frame.i > Len(args.coords)
    /\ pc' = "done"
    /\ ret' = TileElevations(frame.elevations, frame.tiles_needed, frame.tiles)
    /\ UNCHANGED <<args, encoded, calls, frame>>

NextFanIn ==
    \/ Dispatch
    \/ \E t \in FanTiles : StartDownload(t) \/ FinishDownload(t) \/ Collect(t)
    \/ ExitPool
    \/ SampleCoordinate
    \/ ReturnElevations

SpecFanIn == InitFanIn /\ [][NextFanIn]_vars

\* C21: no elevation is sampled (and the sampling loop is not entered)
\* before every dispatched download has finished and been collected; and
\* whatever the order in which the downloads started and completed, the
\* list returned holds, for each coordinate in input order, 0.0 when its
\* tile failed and the value sampled from its tile otherwise.
C21_FanIn ==
    /\ (pc \in {"sampling", "done"} \/ frame.elevations # <<>>) =>
           /\ frame.queued = {} /\ frame.running = {} /\ frame.finished = {}
           /\ \A t \in TilesNeeded(args.coords) :
                  \E k \in 1..Len(calls) : calls[k] = t
           /\ frame.tiles =
                  {t \in TilesNeeded(args.coords) : args.download[t] # "none"}
    /\ pc = "done" =>
           /\ ret.status = "ok"
           /\ Len(ret.value) = Len(args.coords)
           /\ \A i \in 1..Len(args.coords) :
                  ret.value[i] =
                      IF args.download[TileKey(args.coords[i])] = "none" THEN 0
                      ELSE Elevation(args.terrain, args.coords[i])

\* C21 witness: coordinates in tiles 0 and 1 with one worker; tile 1 was
\* downloaded and collected before tile 0, tile 0 failed, and the list
\* returned is in input order.
C21_Witness ==
    /\ pc = "done"
    /\ args.coords = << <<3000, 0>>, <<6000, 0>> >>
    /\ args.workers = 1
    /\ args.download[0] = "none" /\ args.download[1] = "image"
    /\ calls = <<1, 0>>
    /\ ret.status = "ok" /\ ret.value = <<0, 600>>

\* C30: in a call that gets as far as its pool, every distinct tile key
\* covering a coordinate is requested exactly once by the time the pool is
\* left, whether the request succeeded or failed and however many
\* coordinates lie in the tile; no tile is ever requested twice, and a
\* tile covering no coordinate is never requested.
C30_ExactlyOnceFetch ==
    /\ \A t \in FanTiles :
           /\ frame.requests[t] <= 1
           /\ t \notin TilesNeeded(args.coords) => frame.requests[t] = 0
    /\ (pc \in {"sampling", "done"} \/ (pc = "raised" /\ ret.error = "OSError")) =>
           \A t \in TilesNeeded(args.coords) : frame.requests[t] = 1

\* C30 witness: two coordinates in tile 0, whose download failed: the call
\* has returned after one request for tile 0 and none for tile 1.
C30_Witness ==
    /\ pc = "done"
    /\ args.coords = << <<0, 0>>, <<3000, 0>> >>
    /\ args.download[0] = "none"
    /\ frame.requests[0] = 1 /\ frame.requests[1] = 0
    /\ ret.value = <<0, 0>>

(***************************************************************************)
(* Denoising and elevation gain: moving_average and lines 749-757 of       *)
(* calc_metrics, on series of whole metres                                 *)
(***************************************************************************)

\* Bound: an elevation series has at most MaxSamples samples.
MaxSamples == 6

SampleValues == {0, 1, 3, 15}
Series == UNION {[1..n -> SampleValues] : n \in 0..MaxSamples}

InitMetrics ==
    /\ pc = "call"
    /\ args \in Series
    /\ ret = None
    /\ encoded = NoRet
    /\ calls = <<>>
    /\ frame = <<>>

\* Line 750: elev_smoothed = moving_average(elevations, win=5)
Smooth ==
    /\ pc = "call"
    /\ frame' = moving_average(args)
    /\ pc' = "smoothed"
    /\ UNCHANGED <<args, ret, encoded, calls>>

\* Lines 753-757: the gain loop
Gain ==
    /\ pc = "smoothed"
    /\ ret' \in GainOutcomes(frame)
    /\ pc' = "done"
    /\ UNCHANGED <<args, encoded, calls, frame>>

NextMetrics == Smooth \/ Gain

SpecMetrics == InitMetrics /\ [][NextMetrics]_vars

\* The samples of the series at the 1-based indices max(1, i - 2) ..
\* min(n, i + 2), and their sum.
Window(i) == {j \in 1..Len(args) : j >= i - 2 /\ j <= i + 2}
RECURSIVE WindowSum(_)
WindowSum(S) ==
    IF S = {} THEN 0
    ELSE LET j == CHOOSE k \in S : TRUE IN args[j] + WindowSum(S \ {j})

\* C23 as stated: for a series of any length the i-th smoothed value is the
\* mean of the samples of its window.
C23_WindowMeanAnyLength ==
    pc \in {"smoothed", "done"} =>
        /\ Len(frame) = Len(args)
        /\ \A i \in 1..Len(args) :
               frame[i] * Cardinality(Window(i)) = 60 * WindowSum(Window(i))

\* C23 (amended): moving_average returns a series of the same length; for
\* a series of at least 5 samples its i-th value is the mean of the samples
\* at the indices max(0, i - 2) .. min(n - 1, i + 2), the window shrinking
\* at both boundaries without wrapping or padding; a series of fewer than
\* 5 samples is returned unchanged.
C23_Denoising ==
    pc \in {"smoothed", "done"} =>
        /\ Len(frame) = Len(args)
        /\ \A i \in 1..Len(args) :
               IF Len(args) >= 5
               THEN frame[i] * Cardinality(Window(i)) = 60 * WindowSum(Window(i))
               ELSE frame[i] = 60 * args[i]

\* C23 witness: the series 0, 1, 15, 0, 1, 15 is smoothed to
\* 16/3, 4, 3.4, 6.4, 7.75, 16/3.
C23_Witness ==
    /\ pc = "smoothed"
    /\ args = <<0, 1, 15, 0, 1, 15>>
    /\ frame = <<320, 240, 204, 384, 465, 320>>

\* The pairs (i, i + 1) of the smoothed series that rise by more than
\* 3.0 m, and the sum of the rises of a set of pairs (1/60 m).
RisesAboveThreshold ==
    {i \in 1..(Len(frame) - 1) : frame[i + 1] - frame[i] > 3 * 60}
RECURSIVE RiseSum(_)
RiseSum(S) ==
    IF S = {} THEN 0
    ELSE LET i == CHOOSE k \in S : TRUE
         IN (frame[i + 1] - frame[i]) + RiseSum(S \ {i})

LoopFrame(resampled, carry, acc, k, seg_dist, walked) ==
    [resampled |-> resampled, carry |-> carry, acc |-> acc, k |-> k,
     seg_dist |-> seg_dist, walked |-> walked]
NoLoopFrame == LoopFrame(<<>>, <<0, 0>>, 0, 0, 0, 0)

\* No run emits this many points: the raw route is at most
\* (MaxRaw - 1) * MaxPos metres long and a step is at least 1 m.
EmitCap == (MaxRaw - 1) * MaxPos + 1

InitLoop ==
    /\ pc = "call"
    /\ args \in [coords : RawRoutes, step_m : 1..MaxStep]
    /\ ret = <<>>
    /\ encoded = NoRet
    /\ calls = <<>>
    /\ frame = NoLoopFrame

\* Lines 413-418
EnterLoop ==
    /\ pc = "call"
    /\ IF Len(args.coords) < 2
       THEN /\ pc' = "done" /\ ret' = args.coords /\ frame' = frame
       ELSE /\ pc' = "for" /\ ret' = ret
            /\ frame' = LoopFrame(<<args.coords[1]>>, args.coords[1], 0, 2, 0, 0)
    /\ UNCHANGED <<args, encoded, calls>>

\* Lines 420-421: the next raw coordinate and its distance from carry
NextCoord ==
    /\ pc = "for"
    /\ frame.k <= Len(args.coords)
    /\ frame' = [frame EXCEPT !.seg_dist =
                     haversine_distance(frame.carry[1], frame.carry[2],
                                        args.coords[frame.k][1],
                                        args.coords[frame.k][2])]
    /\ pc' = "while"
    /\ UNCHANGED <<args, ret, encoded, calls>>

\* A mutant of the loop test: a zero-length segment enters the loop.
LoopTestZeroLength(acc, seg_dist, step_m) ==
    acc + seg_dist >= step_m \/ seg_dist = 0

\* Line 423: while acc + seg_dist >= step_m
LoopTest(acc, seg_dist, step_m) == acc + seg_dist >= step_m

\* Lines 423-434: the loop test holds and a point is emitted.
EmitPoint ==
    /\ pc = "while"
    /\ LoopTest(frame.acc, frame.seg_dist, args.step_m)
    /\ Len(calls) < EmitCap
    /\ LET next_coord == args.coords[frame.k]
           point == Interpolate(frame.carry, next_coord, args.step_m,
                                frame.acc, frame.seg_dist)
       IN \E p \in InterpolatedFloats(point, frame.seg_dist, args.coords) :
             LET walked == frame.walked
                     + haversine_distance(frame.carry[1], frame.carry[2], p[1], p[2])
             IN /\ frame' = LoopFrame(Append(frame.resampled, p), p,
                                      0, frame.k,
                                      haversine_distance(p[1], p[2],
                                          next_coord[1], next_coord[2]),
                                      walked)
                /\ calls' = Append(calls, walked)
    /\ UNCHANGED <<pc, args, ret, encoded>>

\* Lines 423, 436-437: the loop test fails (at acc + seg_dist = step_m the
\* floats decide); acc += seg_dist, carry = next_coord.
LeaveSegment ==
    /\ pc = "while"
    /\ \/ ~LoopTest(frame.acc, frame.seg_dist, args.step_m)
       \/ frame.acc + frame.seg_dist = args.step_m
    /\ frame' = [frame EXCEPT !.acc = @ + frame.seg_dist,
                              !.carry = args.coords[frame.k],
                              !.k = @ + 1,
                              !.walked = @ + frame.seg_dist]
    /\ pc' = "for"
    /\ UNCHANGED <<args, ret, encoded, calls>>

\* Lines 440-443
FinishLoop ==
    /\ pc = "for"
    /\ frame.k > Len(args.coords)
    /\ ret' = EnsureLast(frame.resampled, args.coords)
    /\ pc' = "done"
    /\ UNCHANGED <<args, encoded, calls, frame>>

NextLoop == EnterLoop \/ NextCoord \/ EmitPoint \/ LeaveSegment \/ FinishLoop

\* The function is sequential code: a statement that can run does run.
SpecLoop == InitLoop /\ [][NextLoop]_vars /\ WF_vars(NextLoop)

\* The along-path distance of the last interpolated point (0: coords[0]).
LastMark == IF calls = <<>> THEN 0 ELSE calls[Len(calls)]
RouteDone == pc = "done" /\ Len(args.coords) >= 2
EndAppended == Len(ret) = Len(frame.resampled) + 1

\* The spacing of the emitted points: every interpolated point lies exactly
\* step_m along the path after the point emitted before it, and an appended
\* raw end point lies no further than step_m after the last of them (at
\* exactly step_m the floats of the loop test decided that it is less).
Spacing ==
    /\ Len(calls) < EmitCap
    /\ \A j \in 1..Len(calls) :
          calls[j] - (IF j = 1 THEN 0 ELSE calls[j-1]) = args.step_m
    /\ RouteDone =>
          /\ Len(frame.resampled) = Len(calls) + 1
          /\ \A j \in 1..Len(frame.resampled) : ret[j] = frame.resampled[j]
          /\ EndAppended =>
                /\ ret[Len(ret)] = args.coords[Len(args.coords)]
                /\ frame.walked - LastMark <= args.step_m

NoteOrder ==
    << "altitude", "lack acclimatization: x1.10", "long exposure (>8h): x1.05",
       "extreme cold (<-10C >3h): x1.05", "heavy load (>12kg): x1.05",
       "total multiplier capped at 3.00", "high latitude: x1.2",
       "slope: bump one level", "accessType: vehicle/cable_car",
       "subCategory: at least MODERATE" >>
NoteIndex(note) == CHOOSE i \in 1..Len(NoteOrder) : NoteOrder[i] = note
LabelAfterSlope ==
    IF ret.locals.steep THEN OneLevelAbove(ret.locals.base_label)
    ELSE ret.locals.base_label

\* The correction behind the i-th note fired in the returned call.
Fired(i) ==
    CASE i = 1 -> GetElevationMultiplier(
                      ElevationSource(args.input_data, args.max_elev_m)) > ONE
      [] i = 2 -> NeedsAcclimatizationPenalty(args.input_data)
      [] i = 3 -> HasLongExposure(args.input_data, args.distance_km)
      [] i = 4 -> HasExtremeCold(args.input_data).value
      [] i = 5 -> HasHeavyLoad(args.input_data)
      [] i = 6 -> MixedGt(ret.locals.total_multiplier, MAX_TOTAL_MULTIPLIER)
      [] i = 7 -> LatitudeCorrected
      [] i = 8 -> ret.locals.steep
      [] i = 9 -> AccessMotorized /\ LabelAfterSlope # EASY
      [] i = 10 -> SubCategoryFloored /\ LabelBeforeFloor = EASY

\* C26: the notes of a call returned from the computed path hold one entry
\* for each correction that fired and none for one that did not (altitude
\* only with a multiplier above 1.0, the cap note exactly when the uncapped
\* total exceeds 3.0, accessType and subCategory only when they changed the
\* label), each entry once, in the fixed order altitude, acclimatization,
\* long exposure, extreme cold, heavy load, cap, high latitude, slope,
\* accessType, subCategory.
C26_CorrectionTrace ==
    (pc = "done" /\ ret.status = "ok" /\ ret.path = "computed") =>
        /\ \A i \in 1..Len(NoteOrder) : Fired(i) <=> InNotes(NoteOrder[i])
        /\ \A j \in 1..Len(ret.notes) :
              \E i \in 1..Len(NoteOrder) : ret.notes[j] = NoteOrder[i]
        /\ \A j, k \in 1..Len(ret.notes) :
              j < k => NoteIndex(ret.notes[j]) < NoteIndex(ret.notes[k])

\* C26 witness: a call at 7000 m and latitude 75 with all four optional
\* corrections has returned the altitude note, the four optional notes, the
\* cap note and the latitude note, in that order.
C26_Witness ==
    /\ pc = "done" /\ ret.status = "ok" /\ ret.path = "computed"
    /\ AllFourTriggered
    /\ ret.notes = << "altitude", "lack acclimatization: x1.10",
                      "long exposure (>8h): x1.05",
                      "extreme cold (<-10C >3h): x1.05",
                      "heavy load (>12kg): x1.05",
                      "total multiplier capped at 3.00", "high latitude: x1.2" >>

\* The returned call is one the distance claim is about: a distance was
\* given, the slope is derived, and the computed path returned.
DistanceCall ==
    /\ pc = "done" /\ ret.status = "ok" /\ ret.path = "computed"
    /\ args.distance_km # None /\ args.slope_avg = None
\* The same call with a longer distance (0.01 km), and what it returns.
LongerDistances ==
    {d \in {500, 800, 801, 1080, 1600, 2500, 3000, 5000} : d > args.distance_km}
AtDistance(d) ==
    EstimateDifficulty(args.input_data, d, args.gain_m, args.max_elev_m,
                       args.slope_avg)

\* C29 as stated: with the other inputs fixed and the slope derived from
\* gain and distance, a longer distance never returns a lower label.
C29_LabelMonotone ==
    DistanceCall => \A d \in LongerDistances : AtDistance(d).label >= ret.label

\* C29, amended: with the other inputs fixed and the slope derived from
\* gain and distance, a longer distance never lowers the label of the base
\* classification (before the slope stage), and it lowers the returned
\* label by one level at most, and only where the derived slope was at
\* least 15% at the shorter distance and is below 15% at the longer one.
C29_DistanceMonotone ==
    DistanceCall =>
        \A d \in LongerDistances :
            /\ AtDistance(d).status = "ok"
            /\ AtDistance(d).locals.base_label >= ret.locals.base_label
            /\ \/ AtDistance(d).label >= ret.label
               \/ /\ ret.locals.steep /\ ~AtDistance(d).locals.steep
                  /\ AtDistance(d).label = ret.label - 1

\* C29 witness: 5 km with 750 m of gain (slope 15%) has returned HARD, and
\* the same call with 8 km (slope 9.4%) returns MODERATE.
C29_Witness ==
    /\ DistanceCall
    /\ args.distance_km = 500 /\ args.gain_m = 750
    /\ ret.locals.base_label = MODERATE /\ ret.locals.steep
    /\ ret.label = HARD
    /\ AtDistance(800).locals.base_label = MODERATE
    /\ ~AtDistance(800).locals.steep
    /\ AtDistance(800).label = MODERATE

(***************************************************************************)
(* Further properties of end2end                                           *)
(***************************************************************************)

\* The route provider has answered with fewer than 2 coordinates.
ShortRoute ==
    /\ Len(calls) >= 1
    /\ Len(frame.coords_raw) < 2
    /\ ~(pc = "raised" /\ Len(calls) = 1)

\* C27: when the route provider answers with fewer than 2 coordinates,
\* end2end returns at once distance 0.0, gain 0.0, slope 0.0, label EASY,
\* S_km 0.0, the single note "short segment" and no GeoJSON; the route is
\* not resampled, no elevation backend and no scoring engine is called, and
\* the label is EASY also when the metadata carries a trailDifficulty.
C27_ShortRoute ==
    /\ pc \in {"resample", "elevation", "except", "fallback", "metrics", "score"}
          => Len(frame.coords_raw) >= 2
    /\ ShortRoute =>
          /\ pc = "done"
          /\ ret.status = "ok"
          /\ ret.distance_km = 0 /\ ret.elevation_gain_m = 0
          /\ ret.slope_avg = 0 /\ ret.S_km = 0
          /\ ret.label = "EASY"
          /\ ret.notes = <<"short segment">>
          /\ ret.geojson.none
          /\ Len(calls) = 1
          /\ calls[1] \in {"get_route_google", "get_route_mapbox"}
          /\ frame.coords = <<>> /\ frame.elevations = <<>>

\* C27 witness: a one-coordinate route with trailDifficulty HARD in the
\* metadata has returned EASY.
C27_Witness ==
    /\ pc = "done"
    /\ frame.coords_raw = << <<0, 0>> >>
    /\ args.meta.trailDifficulty = "HARD"
    /\ ret.label = "EASY" /\ ret.notes = <<"short segment">>
    /\ calls = <<"get_route_mapbox">>

\* C28: a run of end2end that scores sampled elevations (max_elev_m is
\* their maximum, 0 included) computes the altitude multiplier from that
\* maximum and ignores elevationMeters of the metadata: the altitude note
\* is returned exactly when the multiplier of the maximum exceeds 1.0, and
\* never when the sampled elevations are all 0.
C28_ElevationPrecedence ==
    (pc = "done" /\ frame.elevations # <<>>
        /\ args.meta.trailDifficulty = Absent) =>
        ((\E i \in 1..Len(ret.notes) : ret.notes[i] = "altitude")
            <=> GetElevationMultiplier(MaxOf(frame.elevations)) > ONE)

====
